---------------------------- MODULE Spec2Model ----------------------------
(***************************************************************************)
(* A model of the companion server's session store, session bridge event   *)
(* sequencing, recorder and recording files, cron job store and scheduler, *)
(* Codex home and PATH cache.                                              *)
(*                                                                         *)
(* The subsystems share no state, so each has its own specification over   *)
(* its own variables: SpecStore, SpecStoreFiles and SpecLoadAll (session   *)
(* store), SpecBridge and SpecBridgeAnyAck (event sequencing),             *)
(* SpecRecorder, SpecLazyRecorder, SpecListRecordings, SpecSessionRecorder *)
(* and SpecReplay (recordings), SpecCronStore and SpecSlug (cron job       *)
(* store), SpecCron, SpecLaunch, SpecOverlap and SpecScheduler (job        *)
(* execution and timers), SpecCodexHome and SpecPathCache (process         *)
(* environment).                                                           *)
(***************************************************************************)
EXTENDS Integers, Sequences, FiniteSets, TLC

(***************************************************************************)
(* Bounds of the model.                                                    *)
(***************************************************************************)
\* number of distinct values of a session's `state` field
NumStates == 2
\* timer handles the runtime can have outstanding
MaxHandles == 2
\* events an adapter produces in a session
MaxEvents == 4
\* names the recordings directory can hold
MaxFiles == 3
\* the maxLines option the RecorderManager is constructed with
MaxLinesOption == 2
\* sessions the launcher starts
MaxLaunches == 6

\* characters of the names a cron job is given
MaxNameLen == 4

Min(S) == CHOOSE x \in S : \A y \in S : x <= y
Max(S) == CHOOSE x \in S : \A y \in S : x >= y

(***************************************************************************)
(* SESSION STORE  (src/web/server/session-store.ts)                        *)
(***************************************************************************)
SessionIds == {"s1", "s2"}
\* JavaScript values, as tokens
Undefined  == "undefined"
True       == "true"
False      == "false"
Null       == [null |-> TRUE]
\* what the directory holds under a name: nothing, garbage, or a JSON text
NoFile     == [kind |-> "ENOENT"]
Corrupt    == [kind |-> "corrupt"]
NoHandle   == 0
NoTimer    == [active |-> FALSE]
Handles    == 1..MaxHandles

\* the delay given to setTimeout in save()
DEBOUNCE_MS == 150
\* the clock's granularity: time advances by a third of the delay a step, or
\* by less when a timeout is due sooner
TickMs == DEBOUNCE_MS \div 3
\* the elapsed-time observer stops counting one step after the delay
MaxElapsed == DEBOUNCE_MS + TickMs

\* PersistedSession.  Field values are tokens.  `state` numbers the snapshots a
\* session goes through, and the fields between state and archived are those
\* of that snapshot: the first snapshot is the one of a new session, whose
\* optional fields are not set; `archived` is optional (absent = Undefined).
StateValues == {ToString(i) : i \in 1..NumStates}
FieldNames == {"id", "state", "messageHistory", "pendingMessages", "pendingPermissions",
               "eventBuffer", "nextEventSeq", "lastAckSeq", "processedClientMessageIds",
               "archived"}
PersistedSession(id, st, ar) ==
  [id |-> id, state |-> st,
   messageHistory |-> IF st = "1" THEN "[]" ELSE "[error]",
   pendingMessages |-> IF st = "1" THEN "[]" ELSE "[msg1,msg2]",
   pendingPermissions |-> IF st = "1" THEN "[]" ELSE "[[req-1,request]]",
   eventBuffer |-> IF st = "1" THEN Undefined ELSE "[event " \o st \o "]",
   nextEventSeq |-> IF st = "1" THEN Undefined ELSE st,
   lastAckSeq |-> IF st = "1" THEN Undefined ELSE "1",
   processedClientMessageIds |-> IF st = "1" THEN Undefined ELSE "[client-msg-1]",
   archived |-> ar]
Sessions == {PersistedSession(id, st, ar) :
               id \in SessionIds, st \in StateValues, ar \in {Undefined, True, False}}

\* JSON.stringify that also leaves out the properties whose value is false
JSONstringify_dropsFalse(s) ==
  LET keys == {k \in DOMAIN s : s[k] \notin {Undefined, "false"}}
  IN  [kind |-> "json", props |-> [k \in keys |-> s[k]]]

\* JSON.stringify: a property whose value is undefined is left out of the text.
\* The text is modelled as the map from the properties written to their values.
JSONstringify(s) ==
  LET keys == {k \in DOMAIN s : s[k] # Undefined}
  IN  [kind |-> "json", props |-> [k \in keys |-> s[k]]]

\* JSON.parse succeeds on a JSON text and throws on anything else.
Parses(text) == text.kind = "json"

\* JSON.parse of a session text, read as a PersistedSession: a property that
\* is not in the text reads as undefined.
JSONparse(text) ==
  [k \in FieldNames |->
      IF k \in DOMAIN text.props THEN text.props[k] ELSE Undefined]

VARIABLES
  files,           \* the store directory: session id -> NoFile, Corrupt or a text
  debounceTimers,  \* SessionStore.debounceTimers: session id -> handle
  timers,          \* the runtime's timer queue: handle -> NoTimer or a pending timeout
  storeRet,        \* the value returned by the last store call
  sinceSave,       \* observer: ms since the last save(id) call, capped
  burst,           \* observer: the current run of save(id) calls
  cancelled,       \* observer: remove(id) hit a pending write, no save since
  launcherFile     \* the store directory's launcher.json: NoFile, Corrupt or a text

storeVars == <<files, debounceTimers, timers, storeRet, sinceSave, burst, cancelled,
               launcherFile>>

NoBurst == [open |-> FALSE, calls |-> 0, last |-> Null, writes |-> 0, writeAt |-> 0]

StoreInit ==
  /\ files = [id \in SessionIds |-> NoFile]
  /\ debounceTimers = [id \in SessionIds |-> NoHandle]
  /\ timers = [h \in Handles |-> NoTimer]
  /\ storeRet = Undefined
  /\ sinceSave = [id \in SessionIds |-> MaxElapsed]
  /\ burst = [id \in SessionIds |-> NoBurst]
  /\ cancelled = [id \in SessionIds |-> FALSE]
  /\ launcherFile = NoFile

\* clearTimeout(h): the timeout never runs
clearTimeout(q, h) == IF h \in Handles THEN [q EXCEPT ![h] = NoTimer] ELSE q

\* the observer's view of one file write for `id`
NoteWrite(b, id) ==
  [b EXCEPT ![id].writes = IF @ < 2 THEN @ + 1 ELSE @,
            ![id].writeAt = sinceSave[id]]

\* the observer's view of a call that ends the run of saves for `id`
EndBurst(b, id) == [b EXCEPT ![id] = NoBurst]

\* load(sessionId): the parsed file, or null
load(id) ==
  IF Parses(files[id]) THEN JSONparse(files[id]) ELSE Null

\* setTimeout: the lowest free handle of the runtime
FreeHandles(q) == {h \in Handles : ~q[h].active}

\* save() without the clearTimeout of the pending timeout
save_keepsOldTimer(session) ==
  LET id == session.id IN
  /\ FreeHandles(timers) # {}
  /\ LET timer == Min(FreeHandles(timers)) IN
       /\ timers' = [timers EXCEPT ![timer] =
                       [active |-> TRUE, session |-> session, rem |-> DEBOUNCE_MS]]
       /\ debounceTimers' = [debounceTimers EXCEPT ![id] = timer]
  /\ storeRet' = Undefined
  /\ sinceSave' = [sinceSave EXCEPT ![id] = 0]
  /\ burst' = [burst EXCEPT ![id] =
                 IF @.open /\ sinceSave[id] < DEBOUNCE_MS
                   THEN [@ EXCEPT !.calls = IF @ < 2 THEN @ + 1 ELSE @, !.last = session]
                   ELSE [open |-> TRUE, calls |-> 1, last |-> session,
                         writes |-> 0, writeAt |-> 0]]
  /\ cancelled' = [cancelled EXCEPT ![id] = FALSE]
  /\ UNCHANGED <<launcherFile, files>>

(* save(session): debounced write.  A pending timeout of the same id is    *)
(* cleared, a new one is set for DEBOUNCE_MS and kept in debounceTimers.   *)
save(session) ==
  LET id       == session.id
      existing == debounceTimers[id]
      q1       == IF existing # NoHandle THEN clearTimeout(timers, existing) ELSE timers
  IN  /\ FreeHandles(q1) # {}
      /\ LET timer == Min(FreeHandles(q1)) IN
           /\ timers' = [q1 EXCEPT ![timer] = [active |-> TRUE, session |-> session, rem |-> DEBOUNCE_MS]]
           /\ debounceTimers' = [debounceTimers EXCEPT ![id] = timer]
      /\ storeRet' = Undefined
      /\ sinceSave' = [sinceSave EXCEPT ![id] = 0]
      /\ burst' = [burst EXCEPT ![id] =
                     IF @.open /\ sinceSave[id] < DEBOUNCE_MS
                       THEN [@ EXCEPT !.calls = IF @ < 2 THEN @ + 1 ELSE @, !.last = session]
                       ELSE [open |-> TRUE, calls |-> 1, last |-> session,
                             writes |-> 0, writeAt |-> 0]]
      /\ cancelled' = [cancelled EXCEPT ![id] = FALSE]
      /\ UNCHANGED <<launcherFile, files>>

(* saveSync(session): immediate write.  writeFileSync is taken to succeed  *)
(* (the store directory exists and is written by the store alone); its     *)
(* catch branch only logs.                                                 *)
writeSession(f, session) == [f EXCEPT ![session.id] = JSONstringify(session)]

saveSync(session) ==
  /\ files' = writeSession(files, session)
  /\ storeRet' = Undefined
  /\ burst' = EndBurst(burst, session.id)
  /\ cancelled' = [cancelled EXCEPT ![session.id] = FALSE]
  /\ UNCHANGED <<launcherFile, debounceTimers, timers, sinceSave>>

(* The callback given to setTimeout in save(): it runs when the delay has  *)
(* elapsed, drops the map entry of the session id and writes the session.  *)
TimerFires(h) ==
  /\ timers[h].active
  /\ timers[h].rem = 0
  /\ LET session == timers[h].session IN
       /\ debounceTimers' = [debounceTimers EXCEPT ![session.id] = NoHandle]
       /\ files' = writeSession(files, session)
       /\ burst' = NoteWrite(burst, session.id)
  /\ timers' = [timers EXCEPT ![h] = NoTimer]
  /\ UNCHANGED <<launcherFile, storeRet, sinceSave, cancelled>>

\* setArchived that writes a snapshot of its own instead of the one it read
setArchived_writesNewSnapshot(id, archived) ==
  LET session == load(id) IN
  IF session = Null
    THEN /\ storeRet' = "false"
         /\ UNCHANGED <<launcherFile, files, debounceTimers, timers, sinceSave, burst, cancelled>>
    ELSE /\ files' = [files EXCEPT ![id] =
                        [kind |-> "json", props |-> [id |-> id, archived |-> archived]]]
         /\ storeRet' = "true"
         /\ burst' = [burst EXCEPT ![id] = NoBurst]
         /\ cancelled' = [cancelled EXCEPT ![id] = FALSE]
         /\ UNCHANGED <<launcherFile, debounceTimers, timers, sinceSave>>

(* setArchived(sessionId, archived): read-modify-write through saveSync.   *)
setArchived(id, archived) ==
  LET session == load(id) IN
  IF session = Null
    THEN /\ storeRet' = False
         /\ UNCHANGED <<launcherFile, files, debounceTimers, timers, sinceSave, burst, cancelled>>
    ELSE /\ files' = writeSession(files, [session EXCEPT !.archived = archived])
         /\ storeRet' = True
         /\ burst' = EndBurst(burst, id)
         /\ cancelled' = [cancelled EXCEPT ![id] = FALSE]
         /\ UNCHANGED <<launcherFile, debounceTimers, timers, sinceSave>>

\* remove() that unlinks the file and drops the map entry, but leaves the
\* timeout in the runtime's queue
remove_keepsTimer(id) ==
  LET timer == debounceTimers[id] IN
  /\ debounceTimers' = [debounceTimers EXCEPT ![id] = NoHandle]
  /\ files' = [files EXCEPT ![id] = NoFile]
  /\ storeRet' = Undefined
  /\ burst' = EndBurst(burst, id)
  /\ cancelled' = [cancelled EXCEPT ![id] = (timer # NoHandle) \/ @]
  /\ UNCHANGED <<launcherFile, timers, sinceSave>>

(* remove(sessionId): clears the pending timeout, drops the map entry and  *)
(* unlinks the file (a missing file is not an error).                      *)
remove(id) ==
  LET timer == debounceTimers[id] IN
  /\ timers' = IF timer # NoHandle THEN clearTimeout(timers, timer) ELSE timers
  /\ debounceTimers' = [debounceTimers EXCEPT ![id] = NoHandle]
  /\ files' = [files EXCEPT ![id] = NoFile]
  /\ storeRet' = Undefined
  /\ burst' = EndBurst(burst, id)
  /\ cancelled' = [cancelled EXCEPT ![id] = (timer # NoHandle) \/ @]
  /\ UNCHANGED <<launcherFile, sinceSave>>

(* Time passes.  A timeout whose delay has elapsed runs before any more    *)
(* time passes; calls made at the same instant may still come before it.   *)
Pending(q) == {h \in Handles : q[h].active}

Advance ==
  /\ \A h \in Pending(timers) : timers[h].rem > 0
  /\ LET d == Min({TickMs} \cup {timers[h].rem : h \in Pending(timers)}) IN
       /\ timers' = [h \in Handles |->
                       IF ~timers[h].active THEN NoTimer
                       ELSE [timers[h] EXCEPT !.rem = @ - d]]
       /\ sinceSave' = [id \in SessionIds |->
                          IF sinceSave[id] + d > MaxElapsed THEN MaxElapsed
                          ELSE sinceSave[id] + d]
  /\ UNCHANGED <<launcherFile, files, debounceTimers, storeRet, burst, cancelled>>

\* the names of the store directory, in the order readdirSync lists them
LAUNCHER == "launcher.json"
filePath(id) == id \o ".json"
DirectoryNames == <<LAUNCHER, filePath("s1"), filePath("s2")>>

\* what the directory holds under a name
fileAt(name) ==
  IF name = LAUNCHER THEN launcherFile
  ELSE files[CHOOSE id \in SessionIds : filePath(id) = name]

IsThere(name) == fileAt(name).kind # "ENOENT"

\* readdirSync(this.dir)
readdirSync == SelectSeq(DirectoryNames, IsThere)

NotLauncher(name) == name # LAUNCHER
ParsesAt(name) == Parses(fileAt(name))

\* loadAll() that does not leave launcher.json out
loadAll_includesLauncher ==
  LET parsed == SelectSeq(readdirSync, ParsesAt)
  IN  [i \in 1..Len(parsed) |-> JSONparse(fileAt(parsed[i]))]

(* loadAll(): the parsed content of every .json file of the directory but  *)
(* launcher.json, leaving out the files JSON.parse throws on.  Every name  *)
(* of the directory ends with .json.                                       *)
loadAll ==
  LET parsed == SelectSeq(SelectSeq(readdirSync, NotLauncher), ParsesAt)
  IN  [i \in 1..Len(parsed) |-> JSONparse(fileAt(parsed[i]))]

\* what saveLauncher is given
LauncherData == {[some |-> "launcher data"]}

\* saveLauncher(data)
saveLauncher(data) ==
  /\ launcherFile' = [kind |-> "json", props |-> data]
  /\ storeRet' = Undefined
  /\ UNCHANGED <<files, debounceTimers, timers, sinceSave, burst, cancelled>>

(* A file of the directory is damaged: a write that the process did not    *)
(* live to finish leaves a text that does not parse.                       *)
FileDamaged(name) ==
  /\ IF name = LAUNCHER
       THEN launcherFile' = Corrupt /\ UNCHANGED <<files, burst>>
       ELSE LET id == CHOOSE i \in SessionIds : filePath(i) = name IN
            /\ files' = [files EXCEPT ![id] = Corrupt]
            /\ burst' = EndBurst(burst, id)
            /\ UNCHANGED launcherFile
  /\ UNCHANGED <<debounceTimers, timers, storeRet, sinceSave, cancelled>>

\* callers pass snapshots whose archived flag is not set; setArchived sets it
SaveInputs == {s \in Sessions : s.archived = Undefined}

\* snapshots of a new session and of a session with every field set, with the
\* archived flag set or not
FileInputs == {PersistedSession("s1", "1", Undefined), PersistedSession("s1", "2", True),
               PersistedSession("s2", "1", True), PersistedSession("s2", "2", False)}
FirstSessionInputs == {s \in FileInputs : s.id = "s1"}

(* saveSync for any session id: the file written is filePath(session.id),  *)
(* whatever the id; for the id "launcher" that is launcher.json.           *)
LauncherId == "launcher"
AnyIdInputs == FileInputs \cup {PersistedSession(LauncherId, "2", Undefined)}

SessionStore_saveSync(session) ==
  IF filePath(session.id) = LAUNCHER
    THEN /\ launcherFile' = JSONstringify(session)
         /\ storeRet' = Undefined
         /\ UNCHANGED <<files, debounceTimers, timers, sinceSave, burst, cancelled>>
    ELSE saveSync(session)

(***************************************************************************)
(* SESSION BRIDGE: event sequencing and reconnect recording.                  *)
(* The bridge's code is not among the sources; it is modelled from         *)
(* sections 3, 4.2 and 5 of the specification.  One session, its one       *)
(* browser client and the client's successive connections are modelled.    *)
(***************************************************************************)
VARIABLES
  eventBuffer,    \* PersistedSession.eventBuffer: BufferedEvents, oldest first
  nextEventSeq,   \* PersistedSession.nextEventSeq
  lastAckSeq,     \* PersistedSession.lastAckSeq
  persisted,      \* the session's snapshot in the store
  attached,       \* whether a browser connection is attached
  wire,           \* events sent on the connection and not yet received
  browserLog,     \* the seqs the browser has received, in order of receipt
  assigned,       \* observer: every seq the bridge has assigned, in order
  seen            \* observer: which kinds of step have happened

bridgeVars == <<eventBuffer, nextEventSeq, lastAckSeq, persisted, attached, wire,
                browserLog, assigned, seen>>

\* the projection of the session that is persisted
Snapshot(buf, next, ack) == [eventBuffer |-> buf, nextEventSeq |-> next, lastAckSeq |-> ack]

BridgeInit ==
  /\ eventBuffer = <<>>
  /\ nextEventSeq = 1
  /\ lastAckSeq = 0
  /\ persisted = Snapshot(<<>>, 1, 0)
  /\ attached = FALSE
  /\ wire = <<>>
  /\ browserLog = <<>>
  /\ assigned = <<>>
  /\ seen = [reloadAt |-> 0, replay |-> FALSE, staleAck |-> FALSE, trimmed |-> FALSE]

\* the highest seq the browser has received
LastReceived == IF browserLog = <<>> THEN 0 ELSE browserLog[Len(browserLog)]

Seqs(buf) == {buf[i].seq : i \in 1..Len(buf)}

NewerThan(buf, a) == SelectSeq(buf, LAMBDA e : e.seq > a)

\* a bridge that numbers an event by its place in the buffer
sequenceEvent_seqFromBufferLength ==
  /\ nextEventSeq <= MaxEvents
  /\ LET event == [seq |-> Len(eventBuffer) + 1, payload |-> Len(assigned) + 1] IN
       /\ eventBuffer' = Append(eventBuffer, event)
       /\ nextEventSeq' = nextEventSeq + 1
       /\ wire' = IF attached THEN Append(wire, event) ELSE wire
       /\ assigned' = Append(assigned, event.seq)
       /\ persisted' = Snapshot(eventBuffer', nextEventSeq', lastAckSeq)
  /\ UNCHANGED <<lastAckSeq, attached, browserLog, seen>>

(* An adapter event arrives: the bridge gives it seq = nextEventSeq,       *)
(* buffers it, streams it to the attached connection and persists.         *)
sequenceEvent ==
  /\ nextEventSeq <= MaxEvents
  /\ LET event == [seq |-> nextEventSeq, payload |-> Len(assigned) + 1] IN
       /\ eventBuffer' = Append(eventBuffer, event)
       /\ nextEventSeq' = nextEventSeq + 1
       /\ wire' = IF attached THEN Append(wire, event) ELSE wire
       /\ assigned' = Append(assigned, event.seq)
       /\ persisted' = Snapshot(eventBuffer', nextEventSeq', lastAckSeq)
  /\ UNCHANGED <<lastAckSeq, attached, browserLog, seen>>

\* a replay that starts from the session's lastAckSeq, not from the client's a
replay_fromLastAck(buf, a) == NewerThan(buf, lastAckSeq)

\* the events replayed to a connection that attaches with last seq a
replay(buf, a) == NewerThan(buf, a)

(* attach(browserConn) with the client's last seq a: replays the buffered  *)
(* events with seq > a, then streams live events.                          *)
attach(a) ==
  /\ ~attached
  /\ attached' = TRUE
  /\ wire' = replay(eventBuffer, a)
  /\ seen' = [seen EXCEPT !.replay = @ \/ (wire' # <<>> /\ browserLog # <<>>),
                          !.staleAck = @ \/ (lastAckSeq < a /\ wire' # <<>>)]
  /\ UNCHANGED <<eventBuffer, nextEventSeq, lastAckSeq, persisted, browserLog, assigned>>

\* the client attaches with the last seq it has received
BrowserAttaches == attach(LastReceived)

\* the browser receives the next event sent on its connection
BrowserReceives ==
  /\ attached
  /\ wire # <<>>
  /\ browserLog' = Append(browserLog, Head(wire).seq)
  /\ wire' = Tail(wire)
  /\ UNCHANGED <<eventBuffer, nextEventSeq, lastAckSeq, persisted, attached, assigned, seen>>

\* the connection closes: what was sent and not yet received is lost
detach ==
  /\ attached
  /\ attached' = FALSE
  /\ wire' = <<>>
  /\ UNCHANGED <<eventBuffer, nextEventSeq, lastAckSeq, persisted, browserLog, assigned, seen>>

\* a trim that is off by one and drops the first unacknowledged event too
trim_offByOne(buf, acked) == NewerThan(buf, acked + 1)

\* trimming: the acknowledged events leave the buffer
trim(buf, acked) == NewerThan(buf, acked)

(* ack(seq): records that the browser has received up through seq and      *)
(* trims the buffer; a seq at or below lastAckSeq is a no-op.              *)
ack(seq) ==
  /\ attached
  /\ IF seq <= lastAckSeq
       THEN UNCHANGED <<lastAckSeq, eventBuffer, persisted, seen>>
       ELSE /\ lastAckSeq' = seq
            /\ eventBuffer' = trim(eventBuffer, seq)
            /\ persisted' = Snapshot(eventBuffer', nextEventSeq, seq)
            /\ seen' = [seen EXCEPT !.trimmed = @ \/ (eventBuffer' # eventBuffer)]
  /\ UNCHANGED <<nextEventSeq, attached, wire, browserLog, assigned>>

\* the client acknowledges a seq it has received, possibly an old one
BrowserAcks == \E seq \in 0..LastReceived : ack(seq)

\* a client may send any number as the seq it acknowledges
ClientAcksAny == \E seq \in 0..(MaxEvents + 1) : ack(seq)

(* The server restarts: the session is reloaded from its snapshot and all  *)
(* connections are gone.                                                   *)
reload ==
  /\ eventBuffer' = persisted.eventBuffer
  /\ nextEventSeq' = persisted.nextEventSeq
  /\ lastAckSeq' = persisted.lastAckSeq
  /\ attached' = FALSE
  /\ wire' = <<>>
  /\ seen' = [seen EXCEPT !.reloadAt = Len(assigned)]
  /\ UNCHANGED <<persisted, browserLog, assigned>>

(***************************************************************************)
(* RECORDER  (recorder.ts, src/unnamed/part_005)                           *)
(* The recordings directory holds .jsonl recording files only: the ones    *)
(* this manager's recorders write and the ones earlier runs left behind.   *)
(***************************************************************************)
RecSessionIds == {"a", "b"}
FileNames     == 1..MaxFiles
NoRecording   == [exists |-> FALSE]
NoRecorder    == [active |-> FALSE]
NoReturn      == -1
\* the line counts a recording file can have, and the clock's values (ms)
FileLines     == {1, 2}
Times         == {0, 1}

\* RecorderManager's maxLines option
maxLines == MaxLinesOption

VARIABLES
  recordings,          \* the recordings directory: name -> NoRecording or [lines, mtimeMs]
  recorders,           \* RecorderManager.recorders: session id -> SessionRecorder
  globalEnabled,       \* RecorderManager.globalEnabled
  perSessionEnabled,   \* RecorderManager.perSessionEnabled
  perSessionDisabled,  \* RecorderManager.perSessionDisabled
  now,                 \* the clock that stamps file modification times
  cleanupRet,          \* what cleanup() returned, if the last step was cleanup()
  lastOverride,        \* per session, its latest enableForSession/disableForSession call
  recordingsDirExists, \* whether the recordings directory exists
  fileInfo,            \* per file of the directory: its name, and the SessionRecorder
                       \* that created it, if one did
  recordCall           \* observer: the record() call just made, if the last step was one

recorderVars == <<recordings, recorders, globalEnabled, perSessionEnabled,
                  perSessionDisabled, now, cleanupRet, lastOverride,
                  recordingsDirExists, fileInfo, recordCall>>

\* no record() call
NoRecordCall == [op |-> "none"]

\* no file
NoInfo == [filename |-> <<>>, recorder |-> NoRecorder]

\* new RecorderManager(options) on an empty recordings directory
RecorderInit ==
  /\ recordings = [f \in FileNames |-> NoRecording]
  /\ recorders = [sid \in RecSessionIds |-> NoRecorder]
  /\ globalEnabled \in BOOLEAN
  /\ perSessionEnabled = {}
  /\ perSessionDisabled = {}
  /\ now = 0
  /\ cleanupRet = NoReturn
  /\ lastOverride = [sid \in RecSessionIds |-> "none"]
  /\ recordingsDirExists = FALSE
  /\ fileInfo = [f \in FileNames |-> NoInfo]
  /\ recordCall = NoRecordCall

RecordingFile(n, t) == [exists |-> TRUE, lines |-> n, mtimeMs |-> t]

\* readdirSync(recordingsDir)
readdir(dir) == {f \in FileNames : dir[f].exists}

\* countFileLines(path)
countFileLines(dir, f) == IF dir[f].exists THEN dir[f].lines ELSE 0

\* appendFileSync(path, line): creates the file when it is missing
appendFileSync(dir, f, t) ==
  [dir EXCEPT ![f] = RecordingFile(countFileLines(dir, f) + 1, t)]

isRecording(sid) ==
  IF sid \in perSessionDisabled THEN FALSE
  ELSE globalEnabled \/ sid \in perSessionEnabled

enableForSession_keepsDisabled(sid) ==
  /\ perSessionEnabled' = perSessionEnabled \cup {sid}
  /\ lastOverride' = [lastOverride EXCEPT ![sid] = "enableForSession"]
  /\ cleanupRet' = NoReturn
  /\ UNCHANGED <<recordings, recorders, globalEnabled, perSessionDisabled, now>>

enableForSession(sid) ==
  /\ perSessionDisabled' = perSessionDisabled \ {sid}
  /\ perSessionEnabled' = perSessionEnabled \cup {sid}
  /\ lastOverride' = [lastOverride EXCEPT ![sid] = "enableForSession"]
  /\ cleanupRet' = NoReturn
  /\ UNCHANGED <<recordings, recorders, globalEnabled, now>>

\* stopRecording that leaves the recorder in the map
stopped_keepsRecorder(recs, sid) == recs

\* stopRecording(sessionId): close() and forget the recorder
stopped(recs, sid) == [recs EXCEPT ![sid] = NoRecorder]

stopRecording(sid) ==
  /\ recorders' = stopped(recorders, sid)
  /\ cleanupRet' = NoReturn
  /\ UNCHANGED <<lastOverride, recordings, globalEnabled, perSessionEnabled, perSessionDisabled, now>>

disableForSession(sid) ==
  /\ perSessionEnabled' = perSessionEnabled \ {sid}
  /\ perSessionDisabled' = perSessionDisabled \cup {sid}
  /\ recorders' = stopped(recorders, sid)
  /\ lastOverride' = [lastOverride EXCEPT ![sid] = "disableForSession"]
  /\ cleanupRet' = NoReturn
  /\ UNCHANGED <<recordings, globalEnabled, now>>

(* record(sessionId, ...): no-op unless isRecording; creates the session's *)
(* SessionRecorder on the first call (a new, uniquely named file with the  *)
(* header line, lineCount 1), then appends one entry line.  appendOk is    *)
(* whether the entry's appendFileSync succeeds; a failure is swallowed.    *)
record(sid, appendOk) ==
  /\ isRecording(sid)
  /\ LET fresh    == FileNames \ readdir(recordings)
         creates  == ~recorders[sid].active
         f        == IF creates THEN Min(fresh) ELSE recorders[sid].filePath
         dir1     == IF creates THEN appendFileSync(recordings, f, now) ELSE recordings
         count1   == IF creates THEN 1 ELSE recorders[sid].lineCount
     IN  /\ creates => fresh # {}
         /\ countFileLines(dir1, f) < Max(FileLines)
         /\ recordings' = IF appendOk THEN appendFileSync(dir1, f, now) ELSE dir1
         /\ recorders' = [recorders EXCEPT ![sid] =
                            [active |-> TRUE, filePath |-> f,
                             lineCount |-> IF appendOk THEN count1 + 1 ELSE count1]]
  /\ cleanupRet' = NoReturn
  /\ UNCHANGED <<lastOverride, globalEnabled, perSessionEnabled, perSessionDisabled, now>>

closeAll ==
  /\ recorders' = [sid \in RecSessionIds |-> NoRecorder]
  /\ cleanupRet' = NoReturn
  /\ UNCHANGED <<lastOverride, recordings, globalEnabled, perSessionEnabled, perSessionDisabled, now>>

\* a recording left behind by an earlier run, with any line count and age
createFakeRecording(f, n, t) ==
  /\ ~recordings[f].exists
  /\ recordings' = [recordings EXCEPT ![f] = RecordingFile(n, t)]
  /\ cleanupRet' = NoReturn
  /\ UNCHANGED <<lastOverride, recorders, globalEnabled, perSessionEnabled, perSessionDisabled, now>>

ClockTicks ==
  /\ now < Max(Times)
  /\ now' = now + 1
  /\ cleanupRet' = NoReturn
  /\ UNCHANGED <<lastOverride, recordings, recorders, globalEnabled, perSessionEnabled,
                 perSessionDisabled>>

RECURSIVE SumLines(_, _)
SumLines(dir, S) ==
  IF S = {} THEN 0
  ELSE LET f == CHOOSE x \in S : TRUE IN countFileLines(dir, f) + SumLines(dir, S \ {f})

\* the files of the recorders the manager holds
activeFiles(recs) == {recs[sid].filePath : sid \in {x \in RecSessionIds : recs[x].active}}

\* entries.sort((a, b) => b.mtimeMs - a.mtimeMs): newest first
sortedEntries_newestFirst(dir, S) ==
  {o \in [1..Cardinality(S) -> S] :
     /\ \A i, j \in DOMAIN o : i # j => o[i] # o[j]
     /\ \A i, j \in DOMAIN o : i < j => dir[o[i]].mtimeMs >= dir[o[j]].mtimeMs}

(* entries.sort((a, b) => a.mtimeMs - b.mtimeMs): the orders of the files  *)
(* S by modification time, oldest first.  The sort is stable and readdir   *)
(* lists the files in no particular order, so files of equal age may come  *)
(* in either order.                                                        *)
sortedEntries(dir, S) ==
  {o \in [1..Cardinality(S) -> S] :
     /\ \A i, j \in DOMAIN o : i # j => o[i] # o[j]
     /\ \A i, j \in DOMAIN o : i < j => dir[o[i]].mtimeMs <= dir[o[j]].mtimeMs}

\* the deletion loop without the check for active files
RECURSIVE deleteLoop_ignoresActive(_, _, _, _)
deleteLoop_ignoresActive(dir, entries, totalLines, active) ==
  IF entries = <<>> \/ totalLines <= maxLines THEN <<>>
  ELSE LET entry == Head(entries) IN
       <<entry>> \o deleteLoop_ignoresActive(dir, Tail(entries),
                                     totalLines - countFileLines(dir, entry), active)

\* the deletion loop without the break at the ceiling
RECURSIVE deleteLoop_neverBreaks(_, _, _, _)
deleteLoop_neverBreaks(dir, entries, totalLines, active) ==
  IF entries = <<>> THEN <<>>
  ELSE LET entry == Head(entries) IN
       IF entry \in active
         THEN deleteLoop_neverBreaks(dir, Tail(entries), totalLines, active)
         ELSE <<entry>> \o deleteLoop_neverBreaks(dir, Tail(entries),
                                     totalLines - countFileLines(dir, entry), active)

(* The loop of cleanup(): walks the sorted entries, stops once totalLines  *)
(* is at or below maxLines, skips active files, unlinks the others.        *)
(* Yields the files unlinked, in order.                                    *)
RECURSIVE deleteLoop(_, _, _, _)
deleteLoop(dir, entries, totalLines, active) ==
  IF entries = <<>> \/ totalLines <= maxLines THEN <<>>
  ELSE LET entry == Head(entries) IN
       IF entry \in active
         THEN deleteLoop(dir, Tail(entries), totalLines, active)
         ELSE <<entry>> \o deleteLoop(dir, Tail(entries),
                                     totalLines - countFileLines(dir, entry), active)

Range(q) == {q[i] : i \in DOMAIN q}

(* cleanup(): returns 0 when there is no file or the total is at or below  *)
(* maxLines; otherwise unlinks files oldest first and returns how many.    *)
cleanup ==
  LET files0     == readdir(recordings)
      totalLines == SumLines(recordings, files0)
  IN  /\ IF files0 = {} \/ totalLines <= maxLines
           THEN /\ cleanupRet' = 0
                /\ UNCHANGED recordings
           ELSE \E entries \in sortedEntries(recordings, files0) :
                  LET deleted == deleteLoop(recordings, entries, totalLines,
                                            activeFiles(recorders))
                  IN  /\ recordings' = [f \in FileNames |->
                                          IF f \in Range(deleted) THEN NoRecording
                                          ELSE recordings[f]]
                      /\ cleanupRet' = Len(deleted)
      /\ UNCHANGED <<lastOverride, recorders, globalEnabled, perSessionEnabled, perSessionDisabled, now>>

(***************************************************************************)
(* One SessionRecorder and its file (src/unnamed/part_005, lines 47-94),   *)
(* with loadRecording (src/unnamed/part_001).  A text is a sequence of     *)
(* units: the characters of the strings that are recorded ("LF" the line   *)
(* feed, "Q" the double quote, "BS" the backslash), and one unit for each  *)
(* fixed piece of the JSON text of a line.  Timestamps are left out.       *)
(***************************************************************************)
Directions == {"in", "out"}
Channels   == {"cli", "browser"}
BackendTypes == {"claude", "codex"}

\* the characters of a string between the quotes of its JSON text
RECURSIVE escapeString(_)
escapeString(str) ==
  IF str = <<>> THEN <<>>
  ELSE (CASE Head(str) = "LF" -> <<"BS", "n">>
          [] Head(str) = "Q"  -> <<"BS", "Q">>
          [] Head(str) = "BS" -> <<"BS", "BS">>
          [] OTHER            -> <<Head(str)>>) \o escapeString(Tail(str))

\* JSON.stringify of a string
stringifyString_verbatim(str) == <<"Q">> \o str \o <<"Q">>

stringifyString(str) == <<"Q">> \o escapeString(str) \o <<"Q">>

\* JSON.stringify(header)
stringifyHeader(h) ==
  <<"{", "_header:true", "version:1", "session_id:">> \o stringifyString(h.session_id)
  \o <<"backend_type:" \o h.backend_type, "started_at", "cwd:">>
  \o stringifyString(h.cwd) \o <<"}">>

\* JSON.stringify(entry)
stringifyEntry(e) ==
  <<"{", "ts", "dir:" \o e.dir, "raw:">> \o stringifyString(e.raw)
  \o <<"ch:" \o e.ch, "}">>

ParseError == [ok |-> FALSE]

(* The string literal at the front of a text: [ok, value, rest], value the *)
(* string it denotes and rest the text after its closing quote.            *)
RECURSIVE parseChars(_, _)
parseChars(text, sofar) ==
  IF text = <<>> THEN ParseError
  ELSE IF Head(text) = "Q" THEN [ok |-> TRUE, value |-> sofar, rest |-> Tail(text)]
  ELSE IF Head(text) = "LF" THEN ParseError
  ELSE IF Head(text) = "BS" THEN
    IF Len(text) < 2 THEN ParseError
    ELSE IF text[2] = "n"  THEN parseChars(Tail(Tail(text)), Append(sofar, "LF"))
    ELSE IF text[2] = "Q"  THEN parseChars(Tail(Tail(text)), Append(sofar, "Q"))
    ELSE IF text[2] = "BS" THEN parseChars(Tail(Tail(text)), Append(sofar, "BS"))
    ELSE ParseError
  ELSE IF Head(text) \in {"x", "n", " "} THEN parseChars(Tail(text), Append(sofar, Head(text)))
  ELSE ParseError

parseString(text) ==
  IF text # <<>> /\ Head(text) = "Q" THEN parseChars(Tail(text), <<>>) ELSE ParseError

\* JSON.parse of a line that is the text of an entry
parseEntry(line) ==
  IF Len(line) < 4 \/ SubSeq(line, 1, 2) # <<"{", "ts">> \/ line[4] # "raw:"
       \/ line[3] \notin {"dir:" \o d : d \in Directions}
    THEN ParseError
  ELSE LET str == parseString(SubSeq(line, 5, Len(line))) IN
       IF ~str.ok \/ Len(str.rest) # 2 \/ str.rest[2] # "}"
            \/ str.rest[1] \notin {"ch:" \o c : c \in Channels}
         THEN ParseError
       ELSE [ok |-> TRUE,
             value |-> [dir |-> CHOOSE d \in Directions : line[3] = "dir:" \o d,
                        raw |-> str.value,
                        ch  |-> CHOOSE c \in Channels : str.rest[1] = "ch:" \o c]]

(* JSON.parse of a line that is the text of an object with the keys of a   *)
(* header, whatever its _header and version are                            *)
parseHeader(line) ==
  IF Len(line) < 4 \/ line[1] # "{" \/ line[2] \notin {"_header:true", "_header:false"}
       \/ line[3] \notin {"version:1", "version:99"} \/ line[4] # "session_id:"
    THEN ParseError
  ELSE LET sid == parseString(SubSeq(line, 5, Len(line))) IN
       IF ~sid.ok \/ Len(sid.rest) < 3 \/ SubSeq(sid.rest, 2, 3) # <<"started_at", "cwd:">>
            \/ sid.rest[1] \notin {"backend_type:" \o b : b \in BackendTypes}
         THEN ParseError
       ELSE LET cwd == parseString(SubSeq(sid.rest, 4, Len(sid.rest))) IN
            IF ~cwd.ok \/ cwd.rest # <<"}">> THEN ParseError
            ELSE [ok |-> TRUE,
                  _header |-> line[2] = "_header:true",
                  version |-> IF line[3] = "version:1" THEN 1 ELSE 99,
                  value |-> [session_id |-> sid.value,
                             backend_type |-> CHOOSE b \in BackendTypes :
                                                sid.rest[1] = "backend_type:" \o b,
                             cwd |-> cwd.value]]

(* JSON.parse(line): the text of an entry, which has no _header and no     *)
(* version, or the text of an object with the keys of a header             *)
parseLine(line) ==
  LET e == parseEntry(line) IN
  IF e.ok THEN [ok |-> TRUE, _header |-> FALSE, version |-> 0, value |-> e.value]
  ELSE parseHeader(line)

\* l.trim() is empty
isBlank(line) == \A i \in 1..Len(line) : line[i] = " "

\* content.split("\n").filter((l) => l.trim())
RECURSIVE splitLines(_, _)
splitLines(content, line) ==
  IF content = <<>> THEN (IF isBlank(line) THEN <<>> ELSE <<line>>)
  ELSE IF Head(content) = "LF"
    THEN (IF isBlank(line) THEN <<>> ELSE <<line>>) \o splitLines(Tail(content), <<>>)
    ELSE splitLines(Tail(content), Append(line, Head(content)))

\* the object a parsed line is pushed as
pushed(p) ==
  IF p._header \/ p.version # 0
    THEN [_header |-> p._header, version |-> p.version, header |-> p.value]
    ELSE p.value

RECURSIVE parsedEntries(_)
parsedEntries(lines) ==
  IF lines = <<>> THEN <<>>
  ELSE LET e == parseLine(Head(lines)) IN
       (IF e.ok THEN <<pushed(e)>> ELSE <<>>) \o parsedEntries(Tail(lines))

\* loadRecording without the try around the parse of an entry line
loadRecording_throwsOnMalformed(content) ==
  LET lines == splitLines(content, <<>>) IN
  IF lines = <<>> THEN ParseError
  ELSE LET header == parseLine(lines[1]) IN
       IF ~header.ok THEN ParseError
       ELSE IF ~header._header \/ header.version # 1 THEN ParseError
       ELSE IF \E i \in 2..Len(lines) : ~parseLine(lines[i]).ok THEN ParseError
       ELSE [ok |-> TRUE, header |-> header.value,
             entries |-> parsedEntries(Tail(lines))]

(* loadRecording(path): [ok, header, entries], ok false when it throws: on *)
(* a file without a line that is not blank, on a first line that does not  *)
(* parse, and on a first line without _header or with another version      *)
loadRecording(content) ==
  LET lines == splitLines(content, <<>>) IN
  IF lines = <<>> THEN ParseError
  ELSE LET header == parseLine(lines[1]) IN
       IF ~header.ok THEN ParseError
       ELSE IF ~header._header \/ header.version # 1 THEN ParseError
       ELSE [ok |-> TRUE, header |-> header.value,
             entries |-> parsedEntries(Tail(lines))]

\* the number of line feeds in a file
RECURSIVE countNewlines(_)
countNewlines(content) ==
  IF content = <<>> THEN 0
  ELSE (IF Head(content) = "LF" THEN 1 ELSE 0) + countNewlines(Tail(content))

MaxRecordCalls == 2
\* lines of a recording file given to loadRecording
MaxReplayLines == 4
\* executeJob calls that can be in progress at once
MaxFirings == 2

VARIABLES
  srFile,       \* the content of the recorder's file
  srRecorder,   \* the SessionRecorder: closed, lineCount and what it was built with
  srCalls,      \* the record calls made while the recorder was open
  srLast,       \* the latest call, and whether the recorder was closed before it
  recording     \* a recording file given to loadRecording: its content, and
                \* the lines it was written from
srVars == <<srFile, srRecorder, srCalls, srLast, recording>>

Called(op) == [op |-> op, closed |-> srRecorder.closed]

NoHeader == [session_id |-> <<>>, backend_type |-> "claude", cwd |-> <<>>]

\* the arguments the constructor is given
RecorderInputs ==
  {[session_id |-> <<"x">>, backend_type |-> "claude", cwd |-> <<"x">>],
   [session_id |-> <<"n">>, backend_type |-> "codex", cwd |-> <<"x", "Q", "BS">>]}

\* the arguments record is given
RecordInputs ==
  {[dir |-> "in", raw |-> r, ch |-> "cli"] :
       r \in {<<>>, <<"LF">>, <<"Q">>, <<"BS", "n">>}}
  \cup {[dir |-> "out", raw |-> <<"x", "LF", "x">>, ch |-> "browser"],
        [dir |-> "out", raw |-> <<"BS">>, ch |-> "cli"]}

(* What appendFileSync(path, text) can leave in the file: the whole text,  *)
(* or, when it throws, nothing or a part of the text.                      *)
AppendWrites(text) == {0, 5, Len(text) - 1, Len(text)}

NoRecordingFile == [content |-> <<>>, written |-> <<>>]

(* The lines recording files are written from: the text of a header, of a  *)
(* header of another version, of an object that is no header, of entries,  *)
(* text that is no JSON, the front part of an entry, and blank lines.      *)
(* parsed holds the object the line stands for, if it stands for one.      *)
ReplayLines ==
  LET h    == [session_id |-> <<"x">>, backend_type |-> "claude", cwd |-> <<"x">>]
      good == stringifyHeader(h)
      e1   == [dir |-> "in", raw |-> <<"x">>, ch |-> "cli"]
      e2   == [dir |-> "out", raw |-> <<"x", " ", "BS", "n">>, ch |-> "browser"]
  IN  {[kind |-> "header", text |-> good,
        parsed |-> <<[_header |-> TRUE, version |-> 1, header |-> h]>>],
       [kind |-> "bad-version", text |-> [good EXCEPT ![3] = "version:99"],
        parsed |-> <<[_header |-> TRUE, version |-> 99, header |-> h]>>],
       [kind |-> "no-header", text |-> [good EXCEPT ![2] = "_header:false"],
        parsed |-> <<[_header |-> FALSE, version |-> 1, header |-> h]>>],
       [kind |-> "entry", text |-> stringifyEntry(e1), parsed |-> <<e1>>],
       [kind |-> "entry", text |-> stringifyEntry(e2), parsed |-> <<e2>>],
       [kind |-> "corrupt", text |-> <<"{", "x">>, parsed |-> <<>>],
       [kind |-> "corrupt", text |-> SubSeq(stringifyEntry(e2), 1, 6), parsed |-> <<>>],
       [kind |-> "blank", text |-> <<>>, parsed |-> <<>>],
       [kind |-> "blank", text |-> <<" ">>, parsed |-> <<>>]}

\* writeFileSync(path, lines.join("\n") + "\n"), one line at a time
LineWritten(l) ==
  /\ Len(recording.written) < MaxReplayLines
  /\ recording' = [content |-> recording.content \o l.text \o <<"LF">>,
                   written |-> Append(recording.written, l)]

SessionRecorderInit ==
  /\ srFile = <<>>
  /\ srRecorder = [constructed |-> FALSE, closed |-> FALSE, lineCount |-> 0,
                   header |-> NoHeader]
  /\ srCalls = <<>>
  /\ srLast = [op |-> "none", closed |-> FALSE]
  /\ recording = NoRecordingFile

\* new SessionRecorder(sessionId, backendType, cwd, outputDir)
SessionRecorder(h) ==
  /\ ~srRecorder.constructed
  /\ srFile' = stringifyHeader(h) \o <<"LF">>
  /\ srRecorder' = [constructed |-> TRUE, closed |-> FALSE, lineCount |-> 1,
                    header |-> h]
  /\ srLast' = Called("constructor")
  /\ UNCHANGED srCalls

\* record(dir, raw, channel), the append leaving `written` units of the line
SessionRecorder_record_countsFailed(e, written) ==
  LET text == stringifyEntry(e) \o <<"LF">> IN
  /\ srRecorder.constructed
  /\ written \in AppendWrites(text)
  /\ srLast' = Called("record")
  /\ IF srRecorder.closed THEN UNCHANGED <<srFile, srRecorder, srCalls>>
     ELSE /\ Len(srCalls) < MaxRecordCalls
          /\ srFile' = srFile \o SubSeq(text, 1, written)
          /\ srCalls' = Append(srCalls, [dir |-> e.dir, raw |-> e.raw, ch |-> e.ch,
                                         ok |-> written = Len(text)])
          /\ srRecorder' = [srRecorder EXCEPT !.lineCount = @ + 1]

SessionRecorder_record_ignoresClosed(e, written) ==
  LET text == stringifyEntry(e) \o <<"LF">> IN
  /\ srRecorder.constructed
  /\ written \in AppendWrites(text)
  /\ srLast' = Called("record")
  /\ IF FALSE THEN UNCHANGED <<srFile, srRecorder, srCalls>>
     ELSE /\ Len(srCalls) < MaxRecordCalls
          /\ srFile' = srFile \o SubSeq(text, 1, written)
          /\ srCalls' = Append(srCalls, [dir |-> e.dir, raw |-> e.raw, ch |-> e.ch,
                                         ok |-> written = Len(text)])
          /\ srRecorder' = IF written = Len(text)
                             THEN [srRecorder EXCEPT !.lineCount = @ + 1]
                             ELSE srRecorder

SessionRecorder_record(e, written) ==
  LET text == stringifyEntry(e) \o <<"LF">> IN
  /\ srRecorder.constructed
  /\ written \in AppendWrites(text)
  /\ srLast' = Called("record")
  /\ IF srRecorder.closed THEN UNCHANGED <<srFile, srRecorder, srCalls>>
     ELSE /\ Len(srCalls) < MaxRecordCalls
          /\ srFile' = srFile \o SubSeq(text, 1, written)
          /\ srCalls' = Append(srCalls, [dir |-> e.dir, raw |-> e.raw, ch |-> e.ch,
                                         ok |-> written = Len(text)])
          /\ srRecorder' = IF written = Len(text)
                             THEN [srRecorder EXCEPT !.lineCount = @ + 1]
                             ELSE srRecorder

\* close()
SessionRecorder_close ==
  /\ srRecorder.constructed
  /\ srRecorder' = [srRecorder EXCEPT !.closed = TRUE]
  /\ srLast' = Called("close")
  /\ UNCHANGED <<srFile, srCalls>>

(***************************************************************************)
(* The names of the recording files and listRecordings                     *)
(* (src/unnamed/part_005, lines 59-62 and 212-238).  A file name is a      *)
(* sequence of units: the characters of the session id, the backend type,  *)
(* one unit for the timestamp and the suffix, which the integer name of    *)
(* the file stands for, and one for the extension.                         *)
(***************************************************************************)
\* the characters of the session ids
SessionIdText(sid) == IF sid = "a" THEN <<"s", "-", "1">> ELSE <<"s", "_", "2">>

\* `${sessionId}_${backendType}_${ts}_${suffix}.jsonl`
recorderFilename(sid, backendType, f) ==
  SessionIdText(sid) \o <<"_", backendType, "_", "ts", "_", "suffix", ".jsonl">>

\* the names of the files that no recorder wrote
OtherFilenames ==
  {<<"o", "l", "d", "_", "claude", "_", "ts", ".jsonl">>, <<"n", "o", "t", "e", "s", ".jsonl">>}

\* str.indexOf(c, from), counting from 1, and 0 for not found
indexOf(str, c, from) ==
  IF \E i \in from..Len(str) : str[i] = c
    THEN Min({i \in from..Len(str) : str[i] = c})
    ELSE 0

\* the body of the map in listRecordings
parseFilename(filename, lines) ==
  LET withoutExt       == SubSeq(filename, 1, Len(filename) - 1)
      firstUnderscore  == indexOf(withoutExt, "_", 1)
      secondUnderscore == indexOf(withoutExt, "_", firstUnderscore + 1)
  IN  IF firstUnderscore = 0 \/ secondUnderscore = 0
        THEN [filename |-> filename, sessionId |-> <<>>, backendType |-> <<>>,
              startedAt |-> <<>>, lines |-> 0]
        ELSE [filename |-> filename,
              sessionId |-> SubSeq(withoutExt, 1, firstUnderscore - 1),
              backendType |-> SubSeq(withoutExt, firstUnderscore + 1, secondUnderscore - 1),
              startedAt |-> SubSeq(withoutExt, secondUnderscore + 1, Len(withoutExt)),
              lines |-> lines]

(* listRecordings(): the metadata of the .jsonl files of the directory, in *)
(* no particular order; the empty list when readdirSync throws.            *)
listRecordings ==
  IF ~recordingsDirExists THEN {}
  ELSE {parseFilename(fileInfo[f].filename, countFileLines(recordings, f)) :
          f \in {g \in readdir(recordings) :
                   fileInfo[g].filename[Len(fileInfo[g].filename)] = ".jsonl"}}

\* the files that are left keep their names
namesLeft == [f \in FileNames |-> IF recordings'[f].exists THEN fileInfo[f] ELSE NoInfo]

(* RecorderManager.record with the backend type it passes to the recorder  *)
(* it constructs, the name the constructor gives the file, and ensureDir.  *)
RecorderManager_record(sid, backendType, appendOk) ==
  /\ record(sid, appendOk)
  /\ recordingsDirExists' = TRUE
  /\ LET f == recorders'[sid].filePath
         b == IF recorders[sid].active THEN fileInfo[f].recorder.backendType
              ELSE backendType
     IN  fileInfo' = [fileInfo EXCEPT ![f] =
                        [filename |-> recorderFilename(sid, b, f),
                         recorder |-> [sessionId |-> sid, backendType |-> b,
                                       lineCount |-> recorders'[sid].lineCount]]]

\* cleanup() with ensureDir
RecorderManager_cleanup ==
  /\ cleanup
  /\ recordingsDirExists' = TRUE
  /\ fileInfo' = namesLeft

\* a file put into the directory by something else than a recorder
OtherFileWritten(f, filename, n) ==
  /\ createFakeRecording(f, n, 0)
  /\ recordingsDirExists' = TRUE
  /\ fileInfo' = [fileInfo EXCEPT ![f] = [filename |-> filename, recorder |-> NoRecorder]]

(* A call of RecorderManager.record(sessionId, ...), accepted or not: the  *)
(* call returns at once when isRecording(sessionId) is false.              *)
RecordCall(sid, accepted) == [op |-> "record", sessionId |-> sid, accepted |-> accepted]

recordCalled(sid, backendType, appendOk) ==
  /\ recordCall' = RecordCall(sid, isRecording(sid))
  /\ IF isRecording(sid)
       THEN RecorderManager_record(sid, backendType, appendOk)
       ELSE /\ cleanupRet' = NoReturn
            /\ UNCHANGED <<recordings, recorders, globalEnabled, perSessionEnabled,
                           perSessionDisabled, now, lastOverride, recordingsDirExists,
                           fileInfo>>

\* any other call of the manager: the last step was no record() call
otherCall == recordCall' = NoRecordCall /\ UNCHANGED <<recordingsDirExists, fileInfo>>

(***************************************************************************)
(* The Codex home of a session (src/web/server/codex-home.test.ts, lines   *)
(* 63-88).  A path is a sequence of units: "/" and the names between the   *)
(* separators, "." and ".." among them.                                    *)
(***************************************************************************)
\* homedir() and process.cwd()
HomeDir    == <<"/", "home">>
WorkingDir == <<"/", "srv">>

\* the names between the separators of a path
segments(path) == SelectSeq(path, LAMBDA u : u # "/")

\* the names of a path with "." dropped and ".." taking back the name before it
RECURSIVE normalizeSegments(_, _)
normalizeSegments(segs, sofar) ==
  IF segs = <<>> THEN sofar
  ELSE IF Head(segs) = "." THEN normalizeSegments(Tail(segs), sofar)
  ELSE IF Head(segs) = ".." THEN
    normalizeSegments(Tail(segs),
                      IF sofar = <<>> THEN sofar ELSE SubSeq(sofar, 1, Len(sofar) - 1))
  ELSE normalizeSegments(Tail(segs), Append(sofar, Head(segs)))

\* the absolute path of the names segs
RECURSIVE absolutePath(_)
absolutePath(segs) ==
  IF segs = <<>> THEN <<>> ELSE <<"/", Head(segs)>> \o absolutePath(Tail(segs))

isAbsolute(path) == path # <<>> /\ Head(path) = "/"

\* path.resolve(path): absolute, against the working directory when path is not
resolve(path) ==
  LET from == IF isAbsolute(path) THEN path ELSE WorkingDir \o <<"/">> \o path
      segs == normalizeSegments(segments(from), <<>>)
  IN  IF segs = <<>> THEN <<"/">> ELSE absolutePath(segs)

\* path.join(base, name) of an absolute base
join(base, name) == resolve(base \o <<"/">> \o name)

DEFAULT_COMPANION_CODEX_HOME == join(join(HomeDir, <<".companion">>), <<"codex-home">>)
getLegacyCodexHome == join(HomeDir, <<".codex">>)

\* an argument or an environment variable that is not given
NotGiven == [given |-> FALSE]
Given(path) == [given |-> TRUE, path |-> path]

\* explicitCodexHome || fallback
orElse(explicit, fallback) ==
  IF explicit.given /\ explicit.path # <<>> THEN explicit.path ELSE fallback

\* resolveCompanionCodexHome that falls back to process.env.CODEX_HOME
resolveCompanionCodexHome_readsEnv(env, explicitCodexHome) ==
  resolve(orElse(explicitCodexHome, orElse(env, DEFAULT_COMPANION_CODEX_HOME)))

\* resolveCompanionCodexHome(explicitCodexHome), run with CODEX_HOME = env
resolveCompanionCodexHome(env, explicitCodexHome) ==
  resolve(orElse(explicitCodexHome, DEFAULT_COMPANION_CODEX_HOME))

resolveCompanionCodexSessionHome(env, sessionId, explicitCodexHome) ==
  join(resolveCompanionCodexHome(env, explicitCodexHome), sessionId)

\* the values of CODEX_HOME, the explicit paths and the session ids
CodexHomeEnvs ==
  {NotGiven, Given(<<>>), Given(<<"/", "tmp", "/", "global-codex">>), Given(getLegacyCodexHome)}
ExplicitCodexHomes ==
  {NotGiven, Given(<<>>), Given(<<"/", "tmp", "/", "my-codex-home">>),
   Given(<<"/", "tmp", "/", "my-codex-home", "/">>), Given(<<"my-codex-home">>),
   Given(<<"/", "tmp", "/", "..", "/", "my-codex-home">>),
   Given(<<".", "/", "my-codex-home">>)}
CodexSessionIds == {<<"abc-123">>, <<"xyz-789">>, <<"s-1">>}

(***************************************************************************)
(* The enriched PATH and its cache (getEnrichedPath and _resetPathCache,   *)
(* src/web/server/codex-protocol-contract.test.ts, lines 263-296).  A PATH *)
(* is a sequence of units: directory names and the separator ":"; the      *)
(* empty sequence is the empty string.                                     *)
(***************************************************************************)
\* process.env.PATH || ""
ProcessPaths == {<<>>, <<"/usr/bin">>, <<"/usr/bin", ":", "/bin">>}
\* what captureUserShellPath() returns: the PATH of the login shell, or the
\* directories of buildFallbackPath() that exist, which may be none
ShellPaths == {<<>>, <<"/usr/bin", ":", "/call-1">>, <<"/call-2", ":", ":", "/usr/bin">>}

\* str.split(":") without the empty strings, which the loop skips
dirsOf(str) == SelectSeq(str, LAMBDA u : u # ":")

\* the loop over allDirs: the first occurrence of each directory is kept
RECURSIVE dedupe(_, _)
dedupe(dirs, deduped) ==
  IF dirs = <<>> THEN deduped
  ELSE IF \E i \in 1..Len(deduped) : deduped[i] = Head(dirs)
    THEN dedupe(Tail(dirs), deduped)
    ELSE dedupe(Tail(dirs), Append(deduped, Head(dirs)))

\* deduped.join(":")
RECURSIVE joinDirs(_)
joinDirs(dirs) ==
  IF dirs = <<>> THEN <<>>
  ELSE IF Len(dirs) = 1 THEN dirs
  ELSE <<Head(dirs), ":">> \o joinDirs(Tail(dirs))

\* the value getEnrichedPath computes: the shell's directories first
enrichedPath(userPath, currentPath) ==
  joinDirs(dedupe(dirsOf(userPath) \o dirsOf(currentPath), <<>>))

VARIABLES
  cachedPath,  \* _cachedPath: NoPath (null) or Cached(a PATH)
  pathEnv,     \* process.env.PATH and what captureUserShellPath() returns now
  pathCall     \* observer: the getEnrichedPath() call made by the last step, what
               \* it returned and whether it captured the shell PATH
pathVars == <<cachedPath, pathEnv, pathCall>>

NoPath     == [null |-> TRUE]
Cached(p)  == [null |-> FALSE, value |-> p]
NoPathCall == [op |-> "none"]

PathInit ==
  /\ cachedPath = NoPath
  /\ pathEnv = [PATH |-> <<"/usr/bin">>, shell |-> <<"/usr/bin", ":", "/call-1">>]
  /\ pathCall = NoPathCall

\* `if (_cachedPath)`: null and the empty string are falsy
truthy(v) == v # NoPath /\ v.value # <<>>

getEnrichedPath ==
  /\ IF truthy(cachedPath)
       THEN /\ pathCall' = [op |-> "getEnrichedPath", result |-> cachedPath.value,
                            captured |-> FALSE]
            /\ UNCHANGED cachedPath
       ELSE LET result == enrichedPath(pathEnv.shell, pathEnv.PATH) IN
            /\ cachedPath' = Cached(result)
            /\ pathCall' = [op |-> "getEnrichedPath", result |-> result,
                            captured |-> TRUE]
  /\ UNCHANGED pathEnv

resetPathCache ==
  /\ cachedPath' = NoPath
  /\ pathCall' = [op |-> "_resetPathCache"]
  /\ UNCHANGED pathEnv

\* the environment changes between calls
PathEnvChanged(currentPath, userPath) ==
  /\ pathEnv # [PATH |-> currentPath, shell |-> userPath]
  /\ pathEnv' = [PATH |-> currentPath, shell |-> userPath]
  /\ pathCall' = NoPathCall
  /\ UNCHANGED cachedPath

VARIABLES
  codexEnv,    \* process.env.CODEX_HOME
  codexCall,   \* the latest call of the two functions: its arguments and its result
  firings      \* the executeJob calls in progress: how far each has come
procVars == <<codexEnv, codexCall, firings, pathVars>>

NoCodexCall == [op |-> "none"]

\* an executeJob call that has not begun, or has returned
Firings == 1..MaxFirings
Idle    == [pc |-> "idle"]

ProcInit ==
  /\ codexEnv = NotGiven
  /\ codexCall = NoCodexCall
  /\ firings = [f \in Firings |-> Idle]
  /\ PathInit

\* process.env.CODEX_HOME = value, or delete process.env.CODEX_HOME
CodexEnvSet(env) ==
  /\ codexEnv # env
  /\ codexEnv' = env
  /\ codexCall' = NoCodexCall
  /\ UNCHANGED <<firings, pathVars>>

CodexHomeResolved(explicit) ==
  /\ codexCall' = [op |-> "resolveCompanionCodexHome", explicit |-> explicit,
                   result |-> resolveCompanionCodexHome(codexEnv, explicit)]
  /\ UNCHANGED <<codexEnv, firings, pathVars>>

CodexSessionHomeResolved(sessionId, explicit) ==
  /\ codexCall' = [op |-> "resolveCompanionCodexSessionHome", explicit |-> explicit,
                   sessionId |-> sessionId,
                   result |-> resolveCompanionCodexSessionHome(codexEnv, sessionId, explicit)]
  /\ UNCHANGED <<codexEnv, firings, pathVars>>

(***************************************************************************)
(* Cron job store (src/web/server/cron-store.ts) and the scheduler's       *)
(* executeJob.  Strings the store inspects are sequences of one-character  *)
(* strings over Chars.  The timestamp updatedAt is left out of the job     *)
(* records, and createdAt is read from storeClock, which advances only in  *)
(* the specification of the store's callers.  The scheduler is modelled    *)
(* from its description: one executeJob call runs to completion before the *)
(* next.                                                                   *)
(***************************************************************************)
Chars      == {"a", "B", "1", " ", "-", "!"}
Whitespace == {" "}
SlugChars  == {"a", "b", "1", "-"}

toLowerCase(c) == IF c = "B" THEN "b" ELSE c

\* s.replace(/[S]+/g, r): every maximal run of characters of S becomes r
RECURSIVE replaceRuns(_, _, _)
replaceRuns(s, S, r) ==
  IF s = <<>> THEN <<>>
  ELSE IF Head(s) \in S
         THEN IF Len(s) > 1 /\ s[2] \in S
                THEN replaceRuns(Tail(s), S, r)
                ELSE <<r>> \o replaceRuns(Tail(s), S, r)
         ELSE <<Head(s)>> \o replaceRuns(Tail(s), S, r)

RECURSIVE trimStart(_)
trimStart(s) ==
  IF s # <<>> /\ Head(s) \in Whitespace THEN trimStart(Tail(s)) ELSE s

RECURSIVE trimEnd(_)
trimEnd(s) ==
  IF s # <<>> /\ s[Len(s)] \in Whitespace
    THEN trimEnd(SubSeq(s, 1, Len(s) - 1))
    ELSE s

trimString(s) == trimEnd(trimStart(s))

\* slugify without the collapse of runs of hyphens
slugify_noCollapse(name) ==
  LET lower   == [i \in 1..Len(name) |-> toLowerCase(name[i])]
      dashed  == replaceRuns(lower, Whitespace, "-")
      single  == SelectSeq(dashed, LAMBDA c : c \in SlugChars)
      noLead  == IF single # <<>> /\ Head(single) = "-" THEN Tail(single) ELSE single
  IN  IF noLead # <<>> /\ noLead[Len(noLead)] = "-"
        THEN SubSeq(noLead, 1, Len(noLead) - 1)
        ELSE noLead

slugify(name) ==
  LET lower   == [i \in 1..Len(name) |-> toLowerCase(name[i])]
      dashed  == replaceRuns(lower, Whitespace, "-")
      kept    == SelectSeq(dashed, LAMBDA c : c \in SlugChars)
      single  == replaceRuns(kept, {"-"}, "-")
      noLead  == IF single # <<>> /\ Head(single) = "-" THEN Tail(single) ELSE single
  IN  IF noLead # <<>> /\ noLead[Len(noLead)] = "-"
        THEN SubSeq(noLead, 1, Len(noLead) - 1)
        ELSE noLead

\* the names and the other required texts a caller passes in
NameInputs == {<<>>, <<" ">>, <<"!">>, <<"a">>, <<"B", " ", "1">>, <<"b", "!", "-", "1">>}
TextInputs == {<<>>, <<" ">>, <<" ", "x">>}
JobIds     == {slugify(trimString(n)) : n \in NameInputs} \ {<<>>}

NoJob     == [kind |-> "ENOENT"]
NoSession == 0
MAX_CONSECUTIVE_FAILURES == 5
SessionNumbers == 1..MaxLaunches
\* the values Date.now() takes
CronTimes == {0, 1}

VARIABLES
  cronFiles,       \* CRON_DIR: job id -> the job stored in {id}.json, or NoJob
  cronRet,         \* outcome of the last store call: "job", "null", "true",
                   \* "false" or the message of the error thrown
  sessions,        \* the launcher's sessions, in launch order
  injected,        \* the sessions the bridge was given a prompt for
  executions,      \* the scheduler's execution history, per job id
  fired,           \* observer: the executeJob call made by the last step and
                   \* how far it went, or NoFiring
  cronNow,         \* Date.now()
  cronTimers,      \* the scheduler's timers: job id -> its timer, or NoCronTimer
  armed,           \* the timers the runtime holds armed
  called,          \* observer: the scheduleJob, stopJob or destroy call made
                   \* by the last step, or NoCall
  latest,          \* observer: per job id, the schedule that the latest
                   \* scheduleJob call installed, NoSchedule if it installed
                   \* none or stopJob or destroy was called since
  firedTimer,      \* observer: the timer that fired in the last step
  failRun,         \* observer: failed executions of the job since it was
                   \* created or last ran successfully
  launched,        \* observer: sessions launched for the job since it was
                   \* created
  storeClock,      \* Date.now() as createJob reads it
  storeCall,       \* observer: the store function a caller of the store
                   \* called in the last step
  derived          \* the name createJob was last given and the id it made of it

timerVars == <<cronTimers, armed, called, latest, firedTimer>>

cronVars == <<cronFiles, cronRet, sessions, injected, executions, fired, cronNow,
              failRun, launched, timerVars, storeClock, storeCall, derived, procVars>>

NoCronTimer == [armed |-> FALSE]
NoCall      == [op |-> "none"]
NoSchedule  == {}

NoFiring == [called |-> FALSE]
Firing(id, outcome) == [called |-> TRUE, id |-> id, outcome |-> outcome]
\* a firing that launched a session, with the parameters the launcher was given
Launching(id, params) ==
  [called |-> TRUE, id |-> id, outcome |-> "launched", launch |-> params]

\* no name was given yet
NoName == [name |-> <<>>, id |-> <<>>, outcome |-> "none"]

CronInit ==
  /\ cronFiles  = [id \in JobIds |-> NoJob]
  /\ cronRet    = "null"
  /\ sessions   = <<>>
  /\ injected   = {}
  /\ executions = [id \in JobIds |-> <<>>]
  /\ fired      = NoFiring
  /\ cronNow    = 0
  /\ cronTimers = [id \in JobIds |-> NoCronTimer]
  /\ armed      = {}
  /\ called     = NoCall
  /\ latest     = [id \in JobIds |-> NoSchedule]
  /\ firedTimer = NoCronTimer
  /\ failRun    = [id \in JobIds |-> 0]
  /\ launched   = [id \in JobIds |-> 0]
  /\ storeClock = 0
  /\ storeCall  = "none"
  /\ derived    = NoName

existsSync(dir, id) == id \in JobIds /\ dir[id] # NoJob

getJob(id) == IF existsSync(cronFiles, id) THEN cronFiles[id] ELSE NoJob

\* { ...a, ...b }
Spread(a, b) ==
  [k \in DOMAIN a \cup DOMAIN b |-> IF k \in DOMAIN b THEN b[k] ELSE a[k]]

ErrNameRequired     == "Job name is required"
ErrPromptRequired   == "Job prompt is required"
ErrScheduleRequired == "Job schedule is required"
ErrCwdRequired      == "Job working directory is required"
ErrNoAlnum          == "Job name must contain alphanumeric characters"
ErrSimilarName      == "A job with a similar name already exists"

\* createJob without the check for a stored job of the same id
createJob_overwrites(data) ==
  LET id == slugify(trimString(data.name)) IN
  /\ IF trimString(data.name) = <<>> THEN
       cronRet' = ErrNameRequired /\ UNCHANGED cronFiles
     ELSE IF trimString(data.prompt) = <<>> THEN
       cronRet' = ErrPromptRequired /\ UNCHANGED cronFiles
     ELSE IF trimString(data.schedule) = <<>> THEN
       cronRet' = ErrScheduleRequired /\ UNCHANGED cronFiles
     ELSE IF trimString(data.cwd) = <<>> THEN
       cronRet' = ErrCwdRequired /\ UNCHANGED cronFiles
     ELSE IF id = <<>> THEN
       cronRet' = ErrNoAlnum /\ UNCHANGED cronFiles
     ELSE
       /\ cronFiles' = [cronFiles EXCEPT ![id] =
            Spread(data, [id |-> id,
                          name |-> trimString(data.name),
                          prompt |-> trimString(data.prompt),
                          schedule |-> trimString(data.schedule),
                          cwd |-> trimString(data.cwd),
                          createdAt |-> storeClock,
                          consecutiveFailures |-> 0,
                          totalRuns |-> 0])]
       /\ cronRet' = "job"
  /\ fired' = NoFiring
  /\ UNCHANGED <<sessions, injected, executions, cronNow, failRun, launched>>

createJob(data) ==
  LET id == slugify(trimString(data.name)) IN
  /\ IF trimString(data.name) = <<>> THEN
       cronRet' = ErrNameRequired /\ UNCHANGED cronFiles
     ELSE IF trimString(data.prompt) = <<>> THEN
       cronRet' = ErrPromptRequired /\ UNCHANGED cronFiles
     ELSE IF trimString(data.schedule) = <<>> THEN
       cronRet' = ErrScheduleRequired /\ UNCHANGED cronFiles
     ELSE IF trimString(data.cwd) = <<>> THEN
       cronRet' = ErrCwdRequired /\ UNCHANGED cronFiles
     ELSE IF id = <<>> THEN
       cronRet' = ErrNoAlnum /\ UNCHANGED cronFiles
     ELSE IF existsSync(cronFiles, id) THEN
       cronRet' = ErrSimilarName /\ UNCHANGED cronFiles
     ELSE
       /\ cronFiles' = [cronFiles EXCEPT ![id] =
            Spread(data, [id |-> id,
                          name |-> trimString(data.name),
                          prompt |-> trimString(data.prompt),
                          schedule |-> trimString(data.schedule),
                          cwd |-> trimString(data.cwd),
                          createdAt |-> storeClock,
                          consecutiveFailures |-> 0,
                          totalRuns |-> 0])]
       /\ cronRet' = "job"
  /\ fired' = NoFiring
  /\ UNCHANGED <<sessions, injected, executions, cronNow, failRun, launched>>

\* updateJob with the spread the wrong way round: { ...updates, ...existing }
updateJob_spreadReversed(id, updates) ==
  LET existing == getJob(id)
      newName  == IF "name" \in DOMAIN updates /\ trimString(updates.name) # <<>>
                    THEN trimString(updates.name) ELSE existing.name
      newId    == slugify(newName)
      job      == Spread(Spread(updates, existing),
                         [id |-> newId, name |-> newName, createdAt |-> existing.createdAt])
  IN  IF existing = NoJob THEN
        cronRet' = "null" /\ UNCHANGED cronFiles
      ELSE IF newId = <<>> THEN
        cronRet' = ErrNoAlnum /\ UNCHANGED cronFiles
      ELSE IF newId # id /\ existsSync(cronFiles, newId) THEN
        cronRet' = ErrSimilarName /\ UNCHANGED cronFiles
      ELSE
        /\ cronFiles' = [f \in JobIds |->
                           IF f = newId THEN job
                           ELSE IF f = id THEN NoJob
                           ELSE cronFiles[f]]
        /\ cronRet' = "job"

\* updateJob that takes an update of 0 for "no update"
updateJob_skipsZero(id, updates) ==
  LET existing == getJob(id)
      given    == {k \in DOMAIN updates :
                     ~(k \in {"consecutiveFailures", "totalRuns"} /\ updates[k] = 0)}
      kept     == [k \in given |-> updates[k]]
      newName  == IF "name" \in DOMAIN updates /\ trimString(updates.name) # <<>>
                    THEN trimString(updates.name) ELSE existing.name
      newId    == slugify(newName)
      job      == Spread(Spread(existing, kept),
                         [id |-> newId, name |-> newName, createdAt |-> existing.createdAt])
  IN  IF existing = NoJob THEN
        cronRet' = "null" /\ UNCHANGED cronFiles
      ELSE IF newId = <<>> THEN
        cronRet' = ErrNoAlnum /\ UNCHANGED cronFiles
      ELSE IF newId # id /\ existsSync(cronFiles, newId) THEN
        cronRet' = ErrSimilarName /\ UNCHANGED cronFiles
      ELSE
        /\ cronFiles' = [f \in JobIds |->
                           IF f = newId THEN job
                           ELSE IF f = id THEN NoJob
                           ELSE cronFiles[f]]
        /\ cronRet' = "job"

\* updateJob with an `enabled` update that is not stored
updateJob_dropsEnabled(id, updates) ==
  LET existing == getJob(id)
      newName  == IF "name" \in DOMAIN updates /\ trimString(updates.name) # <<>>
                    THEN trimString(updates.name) ELSE existing.name
      newId    == slugify(newName)
      job      == Spread(Spread(existing, updates),
                         [id |-> newId, name |-> newName, createdAt |-> existing.createdAt,
                          enabled |-> existing.enabled])
  IN  IF existing = NoJob THEN
        cronRet' = "null" /\ UNCHANGED cronFiles
      ELSE IF newId = <<>> THEN
        cronRet' = ErrNoAlnum /\ UNCHANGED cronFiles
      ELSE IF newId # id /\ existsSync(cronFiles, newId) THEN
        cronRet' = ErrSimilarName /\ UNCHANGED cronFiles
      ELSE
        /\ cronFiles' = [f \in JobIds |->
                           IF f = newId THEN job
                           ELSE IF f = id THEN NoJob
                           ELSE cronFiles[f]]
        /\ cronRet' = "job"

\* updateJob that leaves the old file in place when the id changes
updateJob_keepsOldFile(id, updates) ==
  LET existing == getJob(id)
      newName  == IF "name" \in DOMAIN updates /\ trimString(updates.name) # <<>>
                    THEN trimString(updates.name) ELSE existing.name
      newId    == slugify(newName)
      job      == Spread(Spread(existing, updates),
                         [id |-> newId, name |-> newName, createdAt |-> existing.createdAt])
  IN  IF existing = NoJob THEN
        cronRet' = "null" /\ UNCHANGED cronFiles
      ELSE IF newId = <<>> THEN
        cronRet' = ErrNoAlnum /\ UNCHANGED cronFiles
      ELSE IF newId # id /\ existsSync(cronFiles, newId) THEN
        cronRet' = ErrSimilarName /\ UNCHANGED cronFiles
      ELSE
        /\ cronFiles' = [f \in JobIds |->
                           IF f = newId THEN job
                           ELSE cronFiles[f]]
        /\ cronRet' = "job"

\* updateJob without the check for a different stored job of the new id
updateJob_renamesOverOther(id, updates) ==
  LET existing == getJob(id)
      newName  == IF "name" \in DOMAIN updates /\ trimString(updates.name) # <<>>
                    THEN trimString(updates.name) ELSE existing.name
      newId    == slugify(newName)
      job      == Spread(Spread(existing, updates),
                         [id |-> newId, name |-> newName, createdAt |-> existing.createdAt])
  IN  IF existing = NoJob THEN
        cronRet' = "null" /\ UNCHANGED cronFiles
      ELSE IF newId = <<>> THEN
        cronRet' = ErrNoAlnum /\ UNCHANGED cronFiles
      ELSE
        /\ cronFiles' = [f \in JobIds |->
                           IF f = newId THEN job
                           ELSE IF f = id THEN NoJob
                           ELSE cronFiles[f]]
        /\ cronRet' = "job"

\* updateJob that stores a new name under the id and the file the job had
updateJob_keepsId(id, updates) ==
  LET existing == getJob(id)
      newName  == IF "name" \in DOMAIN updates /\ trimString(updates.name) # <<>>
                    THEN trimString(updates.name) ELSE existing.name
      job      == Spread(Spread(existing, updates),
                         [id |-> id, name |-> newName, createdAt |-> existing.createdAt])
  IN  IF existing = NoJob THEN
        cronRet' = "null" /\ UNCHANGED cronFiles
      ELSE IF slugify(newName) = <<>> THEN
        cronRet' = ErrNoAlnum /\ UNCHANGED cronFiles
      ELSE
        /\ cronFiles' = [cronFiles EXCEPT ![id] = job]
        /\ cronRet' = "job"

updateJob(id, updates) ==
  LET existing == getJob(id)
      newName  == IF "name" \in DOMAIN updates /\ trimString(updates.name) # <<>>
                    THEN trimString(updates.name) ELSE existing.name
      newId    == slugify(newName)
      job      == Spread(Spread(existing, updates),
                         [id |-> newId, name |-> newName, createdAt |-> existing.createdAt])
  IN  IF existing = NoJob THEN
        cronRet' = "null" /\ UNCHANGED cronFiles
      ELSE IF newId = <<>> THEN
        cronRet' = ErrNoAlnum /\ UNCHANGED cronFiles
      ELSE IF newId # id /\ existsSync(cronFiles, newId) THEN
        cronRet' = ErrSimilarName /\ UNCHANGED cronFiles
      ELSE
        /\ cronFiles' = [f \in JobIds |->
                           IF f = newId THEN job
                           ELSE IF f = id THEN NoJob
                           ELSE cronFiles[f]]
        /\ cronRet' = "job"

deleteJob(id) ==
  /\ IF ~existsSync(cronFiles, id)
       THEN cronRet' = "false" /\ UNCHANGED cronFiles
       ELSE /\ cronFiles' = [cronFiles EXCEPT ![id] = NoJob]
            /\ cronRet' = "true"
  /\ failRun' = [failRun EXCEPT ![id] = 0]
  /\ launched' = [launched EXCEPT ![id] = 0]
  /\ fired' = NoFiring
  /\ UNCHANGED <<sessions, injected, executions, cronNow>>

\* an updateJob call of the store's callers
UpdateJobCall(id, updates) ==
  /\ updateJob(id, updates)
  /\ fired' = NoFiring
  /\ UNCHANGED <<sessions, injected, executions, cronNow, failRun, launched>>

\* the updates a caller passes in: a new name, other fields, and values for
\* id and createdAt
UpdateNames == {<<" ">>, <<"a", "!">>, <<"B", " ", "1">>}
UpdateInputs ==
  {[name |-> n] : n \in UpdateNames}
  \cup {[prompt |-> <<"y">>],
        [id |-> <<"b", "-", "1">>, createdAt |-> 7],
        [name |-> <<"B", " ", "1">>, id |-> <<"a">>, createdAt |-> 7]}

\* the values Date.now() takes for createJob
StoreTimes == {0, 1}

StoreClockTicks ==
  /\ storeClock + 1 \in StoreTimes
  /\ storeClock' = storeClock + 1
  /\ storeCall' = "none"

\* a caller composes the name it will give, of up to MaxNameLen characters
NameTyped(c) ==
  /\ Len(derived.name) < MaxNameLen
  /\ derived' = [name |-> Append(derived.name, c), id |-> <<>>, outcome |-> "none"]

(* The first and the last two checks of createJob, for a name given with   *)
(* valid texts while no job of that id is stored: the id it derives from   *)
(* the name, and whether it rejects the name.                              *)
deriveId(name) ==
  LET id == slugify(trimString(name)) IN
  derived' = [name |-> name, id |-> id,
              outcome |-> IF trimString(name) = <<>> THEN ErrNameRequired
                          ELSE IF id = <<>> THEN ErrNoAlnum
                          ELSE "job"]

\* a launcher that reports no session as alive
isAlive_never(sessionId) == FALSE

\* the launcher: a session is alive until it has exited
isAlive(sessionId) ==
  sessionId \in 1..Len(sessions) /\ sessions[sessionId].state # "exited"

lastSessionIdOf(job) ==
  IF "lastSessionId" \in DOMAIN job THEN job.lastSessionId ELSE NoSession

SessionExits(n) ==
  /\ n \in 1..Len(sessions)
  /\ sessions[n].state = "connected"
  /\ sessions' = [sessions EXCEPT ![n].state = "exited"]
  /\ fired' = NoFiring
  /\ UNCHANGED <<cronFiles, cronRet, injected, executions, cronNow, failRun, launched>>

CronClockTicks ==
  /\ cronNow + 1 \in CronTimes
  /\ cronNow' = cronNow + 1
  /\ fired' = NoFiring
  /\ UNCHANGED <<cronFiles, cronRet, sessions, injected, executions, failRun, launched>>

PermissionModes == {"bypassPermissions", "plan", "acceptEdits"}

\* launchParams with the sandbox of full access for every codex job
launchParams_alwaysFullAccess(job) ==
  LET base == [k \in {"backendType", "permissionMode"} \cap DOMAIN job |-> job[k]] IN
  IF "backendType" \in DOMAIN job /\ job.backendType = "codex"
    THEN Spread(base,
                [codexSandbox |-> "danger-full-access",
                 codexInternetAccess |->
                   ~("codexInternetAccess" \in DOMAIN job /\ ~job.codexInternetAccess)])
    ELSE base

(* The parameters executeJob launches a session with: the job's backend    *)
(* and permission mode, and for a codex job the sandbox and the internet   *)
(* access.  The model, the cwd and the environment are left out.           *)
launchParams(job) ==
  LET base == [k \in {"backendType", "permissionMode"} \cap DOMAIN job |-> job[k]] IN
  IF "backendType" \in DOMAIN job /\ job.backendType = "codex"
    THEN Spread(base,
                [codexSandbox |-> IF job.permissionMode = "bypassPermissions"
                                    THEN "danger-full-access" ELSE "workspace-write",
                 codexInternetAccess |->
                   ~("codexInternetAccess" \in DOMAIN job /\ ~job.codexInternetAccess)])
    ELSE base

(***************************************************************************)
(* executeJob as the asynchronous function it is: its steps 1-2 (look up   *)
(* the job, overlap guard), 3-5 (launch, tag, inject) and 6-7 (record the  *)
(* execution and the tracking fields) are separate steps of a call, and    *)
(* the steps of two calls can interleave.  Nothing but the stored          *)
(* lastSessionId and the launcher's report enters the guard.               *)
(***************************************************************************)
InFlight(id) == {f \in Firings : firings[f].pc # "idle" /\ firings[f].id = id}

\* the guard as a lock: no launch either while another call for the job is
\* in progress
overlapGuard_locks(id, job) ==
  isAlive(lastSessionIdOf(job)) \/ InFlight(id) # {}

\* step 2: whether this firing is to be skipped
overlapGuard(id, job) == isAlive(lastSessionIdOf(job))

executeJob_check(f, id) ==
  LET job == getJob(id) IN
  /\ firings[f] = Idle
  /\ IF job = NoJob THEN
       fired' = Firing(id, "missing") /\ UNCHANGED firings
     ELSE IF ~job.enabled THEN
       fired' = Firing(id, "disabled") /\ UNCHANGED firings
     ELSE IF overlapGuard(id, job) THEN
       fired' = Firing(id, "overlap") /\ UNCHANGED firings
     ELSE
       /\ fired' = Firing(id, "checked")
       /\ firings' = [firings EXCEPT ![f] = [pc |-> "checked", id |-> id, job |-> job]]
  /\ UNCHANGED <<cronFiles, cronRet, sessions, injected, executions, cronNow,
                 failRun, launched>>

executeJob_launch(f, connects) ==
  LET sessionId == Len(sessions) + 1 IN
  /\ firings[f].pc = "checked"
  /\ sessionId \in SessionNumbers
  /\ sessions' = Append(sessions,
                        [state |-> IF connects THEN "connected" ELSE "exited",
                         cronJobId |-> firings[f].id])
  /\ injected' = IF connects THEN injected \cup {sessionId} ELSE injected
  /\ launched' = [launched EXCEPT ![firings[f].id] = @ + 1]
  /\ fired' = Launching(firings[f].id, launchParams(firings[f].job))
  /\ firings' = [firings EXCEPT ![f] =
                   [pc |-> "launched", id |-> @.id, job |-> @.job,
                    sessionId |-> sessionId, success |-> connects]]
  /\ UNCHANGED <<cronFiles, cronRet, executions, cronNow, failRun>>

executeJob_record(f) ==
  /\ firings[f].pc = "launched"
  /\ LET id       == firings[f].id
         job      == firings[f].job
         connects == firings[f].success
         failures == IF connects THEN 0 ELSE job.consecutiveFailures + 1
         tracking == [lastRunAt |-> cronNow,
                      lastSessionId |-> firings[f].sessionId,
                      totalRuns |-> job.totalRuns + 1,
                      consecutiveFailures |-> failures]
     IN  /\ executions' = [executions EXCEPT ![id] =
                             Append(@, [sessionId |-> firings[f].sessionId,
                                        success |-> connects])]
         /\ failRun' = [failRun EXCEPT ![id] = IF connects THEN 0 ELSE @ + 1]
         /\ fired' = Firing(id, "recorded")
         /\ IF failures >= MAX_CONSECUTIVE_FAILURES
              THEN updateJob(id, Spread(tracking, [enabled |-> FALSE]))
              ELSE updateJob(id, tracking)
  /\ firings' = [firings EXCEPT ![f] = Idle]
  /\ UNCHANGED <<sessions, injected, cronNow, launched>>

\* executeJob without the check of `enabled`
executeJob_ignoresEnabled(id, connects) ==
  LET job       == getJob(id)
      sessionId == Len(sessions) + 1
      failures  == IF connects THEN 0 ELSE job.consecutiveFailures + 1
      tracking  == [lastRunAt |-> cronNow,
                    lastSessionId |-> sessionId,
                    totalRuns |-> job.totalRuns + 1,
                    consecutiveFailures |-> failures]
  IN  IF job = NoJob THEN
        /\ fired' = Firing(id, "missing")
        /\ UNCHANGED <<cronFiles, cronRet, sessions, injected, executions, cronNow,
                       failRun, launched>>
      ELSE IF isAlive(lastSessionIdOf(job)) THEN
        /\ fired' = Firing(id, "overlap")
        /\ UNCHANGED <<cronFiles, cronRet, sessions, injected, executions, cronNow,
                       failRun, launched>>
      ELSE
        /\ sessionId \in SessionNumbers
        /\ sessions' = Append(sessions,
                              [state |-> IF connects THEN "connected" ELSE "exited",
                               cronJobId |-> id])
        /\ injected' = IF connects THEN injected \cup {sessionId} ELSE injected
        /\ executions' = [executions EXCEPT ![id] =
                            Append(@, [sessionId |-> sessionId, success |-> connects])]
        /\ launched' = [launched EXCEPT ![id] = @ + 1]
        /\ UNCHANGED cronNow
        /\ fired' = Launching(id, launchParams(job))
        /\ failRun' = [failRun EXCEPT ![id] = IF connects THEN 0 ELSE @ + 1]
        /\ IF failures >= MAX_CONSECUTIVE_FAILURES
             THEN updateJob(id, Spread(tracking, [enabled |-> FALSE]))
             ELSE updateJob(id, tracking)

(* executeJob(id): `connects` is whether the launched session connects.    *)
(* Missing or disabled job: nothing.  Last session still alive: nothing.   *)
(* Otherwise launch a session, inject the prompt once it is connected,     *)
(* record the execution, count the run, count or reset the consecutive     *)
(* failures, disable the job at MAX_CONSECUTIVE_FAILURES.                  *)
executeJob(id, connects) ==
  LET job       == getJob(id)
      sessionId == Len(sessions) + 1
      failures  == IF connects THEN 0 ELSE job.consecutiveFailures + 1
      tracking  == [lastRunAt |-> cronNow,
                    lastSessionId |-> sessionId,
                    totalRuns |-> job.totalRuns + 1,
                    consecutiveFailures |-> failures]
  IN  IF job = NoJob THEN
        /\ fired' = Firing(id, "missing")
        /\ UNCHANGED <<cronFiles, cronRet, sessions, injected, executions, cronNow,
                       failRun, launched>>
      ELSE IF ~job.enabled THEN
        /\ fired' = Firing(id, "disabled")
        /\ UNCHANGED <<cronFiles, cronRet, sessions, injected, executions, cronNow,
                       failRun, launched>>
      ELSE IF isAlive(lastSessionIdOf(job)) THEN
        /\ fired' = Firing(id, "overlap")
        /\ UNCHANGED <<cronFiles, cronRet, sessions, injected, executions, cronNow,
                       failRun, launched>>
      ELSE
        /\ sessionId \in SessionNumbers
        /\ sessions' = Append(sessions,
                              [state |-> IF connects THEN "connected" ELSE "exited",
                               cronJobId |-> id])
        /\ injected' = IF connects THEN injected \cup {sessionId} ELSE injected
        /\ executions' = [executions EXCEPT ![id] =
                            Append(@, [sessionId |-> sessionId, success |-> connects])]
        /\ launched' = [launched EXCEPT ![id] = @ + 1]
        /\ UNCHANGED cronNow
        /\ fired' = Launching(id, launchParams(job))
        /\ failRun' = [failRun EXCEPT ![id] = IF connects THEN 0 ELSE @ + 1]
        /\ IF failures >= MAX_CONSECUTIVE_FAILURES
             THEN updateJob(id, Spread(tracking, [enabled |-> FALSE]))
             ELSE updateJob(id, tracking)

(***************************************************************************)
(* The scheduler's timers, modelled from their description.  A schedule is *)
(* the set of times it matches: a cron expression matches several, the     *)
(* timestamp of a one-shot job is the only member of its set.              *)
(***************************************************************************)
SchedTimes == {0, 1, 2}
Schedules  == {{1, 2}, {2}}
Timestamps == {{1}, {2}}
\* past the last time of the model
Beyond     == Max(SchedTimes) + 1

\* the next time after `from` that a cron expression matches
nextRun(schedule, from) ==
  IF \E t \in schedule : t > from
    THEN Min({t \in schedule : t > from})
    ELSE Beyond

CronTimer(job, at) ==
  [armed |-> TRUE, id |-> job.id, at |-> at, recurring |-> job.recurring,
   schedule |-> job.schedule]

\* observer: a scheduleJob call, whether its job was enabled, whether it
\* was a one-shot job with a timestamp in the past, and whether the id had a
\* timer with another schedule when the call was made
ScheduleCall(job) ==
  [op |-> "scheduleJob", id |-> job.id, enabled |-> job.enabled,
   past |-> ~job.recurring /\ \A t \in job.schedule : t < cronNow,
   replaced |-> /\ cronTimers[job.id].armed
                /\ cronTimers[job.id].schedule # job.schedule]

\* cancel the timer the scheduler holds for id
clearCronTimer(q, id) == q \ {cronTimers[id]}

stopJob(id) ==
  /\ cronTimers' = [cronTimers EXCEPT ![id] = NoCronTimer]
  /\ armed' = clearCronTimer(armed, id)
  /\ called' = [op |-> "stopJob", id |-> id]
  /\ latest' = [latest EXCEPT ![id] = NoSchedule]
  /\ firedTimer' = NoCronTimer
  /\ fired' = NoFiring
  /\ UNCHANGED <<cronFiles, cronRet, sessions, injected, executions, cronNow,
                 failRun, launched>>

\* scheduleJob that leaves the timer it replaces armed
scheduleJob_keepsOldTimer(job) ==
  LET at == IF job.recurring THEN nextRun(job.schedule, cronNow)
            ELSE Min(job.schedule)
      installs == job.enabled /\ (job.recurring \/ at >= cronNow)
  IN  /\ cronTimers' = [cronTimers EXCEPT ![job.id] =
                          IF installs THEN CronTimer(job, at) ELSE NoCronTimer]
      /\ armed' = IF installs
                    THEN armed \cup {CronTimer(job, at)}
                    ELSE clearCronTimer(armed, job.id)
      /\ called' = ScheduleCall(job)
      /\ latest' = [latest EXCEPT ![job.id] =
                      IF installs THEN job.schedule ELSE NoSchedule]
      /\ firedTimer' = NoCronTimer
      /\ fired' = NoFiring
      /\ UNCHANGED <<cronFiles, cronRet, sessions, injected, executions, cronNow,
                     failRun, launched>>

\* scheduleJob that returns before clearing when nothing is to be installed
scheduleJob_skipsWithoutClearing(job) ==
  LET at == IF job.recurring THEN nextRun(job.schedule, cronNow)
            ELSE Min(job.schedule)
      installs == job.enabled /\ (job.recurring \/ at >= cronNow)
  IN  /\ cronTimers' = IF installs
                         THEN [cronTimers EXCEPT ![job.id] = CronTimer(job, at)]
                         ELSE cronTimers
      /\ armed' = IF installs
                    THEN clearCronTimer(armed, job.id) \cup {CronTimer(job, at)}
                    ELSE armed
      /\ called' = ScheduleCall(job)
      /\ latest' = [latest EXCEPT ![job.id] =
                      IF installs THEN job.schedule ELSE NoSchedule]
      /\ firedTimer' = NoCronTimer
      /\ fired' = NoFiring
      /\ UNCHANGED <<cronFiles, cronRet, sessions, injected, executions, cronNow,
                     failRun, launched>>

(* scheduleJob(job): clears the timer the id has; a disabled job, or a     *)
(* one-shot job whose timestamp is in the past, gets no timer; otherwise   *)
(* a timer is armed for the next time of the schedule.                     *)
scheduleJob(job) ==
  LET at == IF job.recurring THEN nextRun(job.schedule, cronNow)
            ELSE Min(job.schedule)
      installs == job.enabled /\ (job.recurring \/ at >= cronNow)
  IN  /\ cronTimers' = [cronTimers EXCEPT ![job.id] =
                          IF installs THEN CronTimer(job, at) ELSE NoCronTimer]
      /\ armed' = IF installs
                    THEN clearCronTimer(armed, job.id) \cup {CronTimer(job, at)}
                    ELSE clearCronTimer(armed, job.id)
      /\ called' = ScheduleCall(job)
      /\ latest' = [latest EXCEPT ![job.id] =
                      IF installs THEN job.schedule ELSE NoSchedule]
      /\ firedTimer' = NoCronTimer
      /\ fired' = NoFiring
      /\ UNCHANGED <<cronFiles, cronRet, sessions, injected, executions, cronNow,
                     failRun, launched>>

\* getNextRunTime(id): the time of the id's timer, or null
NoNextRun == -1
getNextRunTime(id) ==
  IF id \in JobIds /\ cronTimers[id].armed THEN cronTimers[id].at ELSE NoNextRun

getExecutions(id) == IF id \in JobIds THEN executions[id] ELSE <<>>

(* An armed timer whose time has come fires: it runs executeJob for its    *)
(* job; the timer of a recurring job is armed again for the next time of   *)
(* its schedule, the timer of a one-shot job is gone.                      *)
CronTimerFires(t, connects) ==
  LET next == [t EXCEPT !.at = nextRun(t.schedule, cronNow)] IN
  /\ t \in armed
  /\ t.at <= cronNow
  /\ executeJob(t.id, connects)
  /\ armed' = IF t.recurring THEN (armed \ {t}) \cup {next} ELSE armed \ {t}
  /\ cronTimers' = IF cronTimers[t.id] = t
                     THEN [cronTimers EXCEPT ![t.id] =
                             IF t.recurring THEN next ELSE NoCronTimer]
                     ELSE cronTimers
  /\ latest' = latest
  /\ firedTimer' = t
  /\ called' = NoCall

\* time passes in the scheduler's process, once the timers that are due
\* have fired
SchedulerAdvance ==
  /\ cronNow + 1 \in SchedTimes
  /\ \A t \in armed : t.at > cronNow
  /\ cronNow' = cronNow + 1
  /\ fired' = NoFiring
  /\ called' = NoCall
  /\ firedTimer' = NoCronTimer
  /\ UNCHANGED <<cronFiles, cronRet, sessions, injected, executions, failRun,
                 launched, cronTimers, armed, latest>>

\* destroy that forgets its timers without cancelling them
destroy_leavesTimersArmed ==
  /\ cronTimers' = [id \in JobIds |-> NoCronTimer]
  /\ armed' = armed
  /\ executions' = [id \in JobIds |-> <<>>]
  /\ called' = [op |-> "destroy"]
  /\ latest' = [id \in JobIds |-> NoSchedule]
  /\ firedTimer' = NoCronTimer
  /\ fired' = NoFiring
  /\ UNCHANGED <<cronFiles, cronRet, sessions, injected, cronNow, failRun, launched>>

\* destroy(): cancels every timer and empties the execution history
destroy ==
  /\ cronTimers' = [id \in JobIds |-> NoCronTimer]
  /\ armed' = armed \ {cronTimers[id] : id \in JobIds}
  /\ executions' = [id \in JobIds |-> <<>>]
  /\ called' = [op |-> "destroy"]
  /\ latest' = [id \in JobIds |-> NoSchedule]
  /\ firedTimer' = NoCronTimer
  /\ fired' = NoFiring
  /\ UNCHANGED <<cronFiles, cronRet, sessions, injected, cronNow, failRun, launched>>

ScheduleInputs ==
  [id : JobIds, enabled : BOOLEAN, recurring : {TRUE}, schedule : Schedules]
  \cup [id : JobIds, enabled : BOOLEAN, recurring : {FALSE}, schedule : Timestamps]

\* createJob inputs: every name with valid texts, and a valid name with
\* one text missing or blank
ValidText == <<" ", "x">>
CreateInputs ==
  [name : NameInputs, prompt : {ValidText}, schedule : {ValidText},
   cwd : {ValidText}, enabled : BOOLEAN]
  \cup [name : {<<"a">>}, prompt : TextInputs, schedule : {ValidText},
        cwd : {ValidText}, enabled : {TRUE}]
  \cup [name : {<<"a">>}, prompt : {ValidText}, schedule : TextInputs,
        cwd : {ValidText}, enabled : {TRUE}]
  \cup [name : {<<"a">>}, prompt : {ValidText}, schedule : {ValidText},
        cwd : TextInputs, enabled : {TRUE}]

\* createJob inputs of the store's callers: every name, and every way of
\* leaving a text out, for jobs that start enabled
StoreCreateInputs == {data \in CreateInputs : data.enabled}

\* createJob inputs of jobs of either backend, of every permission mode,
\* that leave codexInternetAccess out or set it
LaunchCreateInputs ==
  [name : {<<"a">>}, prompt : {ValidText}, schedule : {ValidText}, cwd : {ValidText},
   enabled : {TRUE}, backendType : BackendTypes, permissionMode : PermissionModes]
  \cup [name : {<<"a">>}, prompt : {ValidText}, schedule : {ValidText}, cwd : {ValidText},
        enabled : {TRUE}, backendType : BackendTypes, permissionMode : PermissionModes,
        codexInternetAccess : BOOLEAN]

\* the job ids the scheduler is asked to run, and the createJob inputs
\* that make them
FiredJobIds == {<<"a">>}
FiredCreateInputs == {data \in CreateInputs :
                        /\ slugify(trimString(data.name)) \in FiredJobIds
                        /\ data.prompt = ValidText
                        /\ data.schedule = ValidText
                        /\ data.cwd = ValidText}

(***************************************************************************)
(* Claims about the session store                                          *)
(***************************************************************************)
\* the pending timeouts of the runtime that would write session `id`
PendingFor(id) == {h \in Pending(timers) : timers[h].session.id = id}

(* C1: Debounce coalescing.  While a run of save(id) calls, each less than *)
(* DEBOUNCE_MS after the one before and with no remove or saveSync for id  *)
(* in between, is under way: no write for id happens before the last call  *)
(* plus DEBOUNCE_MS (until then the write of the last snapshot is pending),*)
(* exactly one write happens at that moment, and the file then holds the   *)
(* snapshot passed to the last call.                                       *)
C1_DebounceCoalescing ==
  \A id \in SessionIds :
    burst[id].open =>
      /\ burst[id].calls >= 1
      /\ burst[id].writes \in {0, 1}
      /\ sinceSave[id] < DEBOUNCE_MS => burst[id].writes = 0
      /\ sinceSave[id] > DEBOUNCE_MS => burst[id].writes = 1
      /\ burst[id].writes = 0 =>
           \E h \in PendingFor(id) :
             /\ timers[h].session = burst[id].last
             /\ timers[h].rem = DEBOUNCE_MS - sinceSave[id]
      /\ burst[id].writes = 1 =>
           /\ burst[id].writeAt = DEBOUNCE_MS
           /\ files[id] = JSONstringify(burst[id].last)
           /\ PendingFor(id) = {}

\* C1 witness: a run of at least two save calls has ended in its one write
C1_Witness ==
  \E id \in SessionIds :
    /\ burst[id].open
    /\ burst[id].calls >= 2
    /\ burst[id].writes = 1
    /\ files[id] = JSONstringify(burst[id].last)

(* C2: Cancellation wins over a pending debounce.  Once remove(id) has     *)
(* been called while a debounced save for id was pending, and as long as   *)
(* no save or saveSync for id follows, the file for id is absent, however  *)
(* much time passes.                                                       *)
C2_RemoveCancelsPendingWrite ==
  \A id \in SessionIds : cancelled[id] => files[id] = NoFile

\* C2 witness: a pending write was removed and more than the delay has passed
C2_Witness ==
  \E id \in SessionIds :
    /\ cancelled[id]
    /\ sinceSave[id] > DEBOUNCE_MS
    /\ files[id] = NoFile

C6_LastAckBelowNext == lastAckSeq < nextEventSeq

(***************************************************************************)
(* Claims about the recorder's cleanup                                     *)
(***************************************************************************)
\* a step is a cleanup() call exactly when it leaves a return value
CleanupStep == cleanupRet' # NoReturn

TotalLines(dir) == SumLines(dir, readdir(dir))

(* C7: cleanup() never deletes the file of a recorder that is active in    *)
(* the manager at that moment, whatever the file's age and the total.      *)
C7_CleanupSparesActive ==
  [][CleanupStep =>
       \A f \in activeFiles(recorders) :
         recordings[f].exists => recordings'[f] = recordings[f]]_recorderVars

\* C7 witness: cleanup() has deleted files and left an active recorder's
\* file that is as old as a file can be, with the total still over maxLines
C7_Witness ==
  /\ cleanupRet >= 1
  /\ TotalLines(recordings) > maxLines
  /\ now > 0
  /\ \E f \in activeFiles(recorders) :
       recordings[f].exists /\ recordings[f].mtimeMs = 0

(* C8: cleanup() deletes oldest-first: among the files not owned by an     *)
(* active recorder, every file it deletes has a modification time no later *)
(* than that of every file it leaves in place.                             *)
C8_CleanupOldestFirst ==
  [][CleanupStep =>
       \A d, k \in readdir(recordings) :
         (/\ ~recordings'[d].exists
          /\ recordings'[k].exists
          /\ k \notin activeFiles(recorders))
         => recordings[d].mtimeMs <= recordings[k].mtimeMs]_recorderVars

\* C8 witness: cleanup() has deleted a file and left in place a newer file
\* that no active recorder owns
C8_Witness ==
  /\ cleanupRet >= 1
  /\ \E k \in readdir(recordings) :
       k \notin activeFiles(recorders) /\ recordings[k].mtimeMs > 0

(* C9: cleanup() deletes nothing and returns 0 when the total line count   *)
(* is at or below maxLines; otherwise it only deletes while the running    *)
(* total exceeds maxLines, so that afterwards the total is at or below     *)
(* maxLines or every remaining file belongs to an active recorder; it      *)
(* returns the number of files it deleted.                                 *)
C9_CleanupToCeiling ==
  [][CleanupStep =>
       LET deleted == {f \in readdir(recordings) : ~recordings'[f].exists} IN
       /\ \A f \in FileNames : f \notin deleted => recordings'[f] = recordings[f]
       /\ cleanupRet' = Cardinality(deleted)
       /\ TotalLines(recordings) <= maxLines => deleted = {}
       /\ deleted # {} =>
            \E d \in deleted : TotalLines(recordings') + recordings[d].lines > maxLines
       /\ \/ TotalLines(recordings') <= maxLines
          \/ readdir(recordings') \subseteq activeFiles(recorders)]_recorderVars

\* C9 witness: cleanup() has deleted some files, not all, and the total is
\* back at or below maxLines
C9_Witness ==
  /\ cleanupRet >= 1
  /\ readdir(recordings) # {}
  /\ readdir(recordings) \ activeFiles(recorders) # {}
  /\ TotalLines(recordings) <= maxLines

(***************************************************************************)
(* Claims about the cron scheduler                                         *)
(***************************************************************************)
(* C10: Failure escalation.  For every stored job, consecutiveFailures is  *)
(* the number of executeJob calls that failed since the job was created or *)
(* last ran successfully; after the 1st to the 4th failure in a row the    *)
(* job is still enabled, and at the 5th it is disabled with                *)
(* consecutiveFailures = 5.                                                *)
C10_FailureEscalation ==
  \A id \in JobIds :
    existsSync(cronFiles, id) =>
      /\ cronFiles[id].consecutiveFailures = failRun[id]
      /\ failRun[id] \in 0..5
      /\ failRun[id] \in 1..4 => cronFiles[id].enabled
      /\ failRun[id] = 5 => ~cronFiles[id].enabled

\* C10 witness: after a successful run a job has failed five times in a row
\* and is disabled
C10_Witness ==
  \E id \in JobIds :
    /\ existsSync(cronFiles, id)
    /\ failRun[id] = 5
    /\ cronFiles[id].consecutiveFailures = 5
    /\ ~cronFiles[id].enabled
    /\ cronFiles[id].totalRuns > 5
    /\ ~isAlive(cronFiles[id].lastSessionId)

\* the step is an executeJob(id) call
ExecuteJobStep(id) == fired'.called /\ fired'.id = id

\* the session number n names a session that has not exited
StillAlive(n) == n \in 1..Len(sessions) /\ sessions[n].state # "exited"

(* C11: Overlap guard.  An executeJob call for a stored job whose          *)
(* lastSessionId names a session that is still alive launches no session,  *)
(* injects no prompt, records no execution and no failure, and leaves      *)
(* every field of the stored job as it was.                                *)
C11_OverlapGuard ==
  [][\A id \in JobIds :
       ( /\ ExecuteJobStep(id)
         /\ existsSync(cronFiles, id)
         /\ StillAlive(lastSessionIdOf(cronFiles[id])) )
       => /\ sessions' = sessions
          /\ injected' = injected
          /\ executions' = executions
          /\ failRun' = failRun
          /\ cronFiles' = cronFiles]_cronVars

\* C11 witness: executeJob was just called for an enabled job whose last
\* session is alive, the job having run at least twice
C11_Witness ==
  /\ fired = Firing(<<"a">>, "overlap")
  /\ cronFiles[<<"a">>].enabled
  /\ cronFiles[<<"a">>].totalRuns >= 2
  /\ StillAlive(cronFiles[<<"a">>].lastSessionId)

\* the step is an executeJob(id) call that launched a session
LaunchStep(id) == ExecuteJobStep(id) /\ Len(sessions') = Len(sessions) + 1

(* C13: A successful executeJob, one whose launched session connects, sets *)
(* the job's consecutiveFailures to 0 whatever it was before and leaves    *)
(* the job enabled.                                                        *)
C13_SuccessResetsFailures ==
  [][\A id \in JobIds :
       (LaunchStep(id) /\ sessions'[Len(sessions')].state = "connected")
       => /\ existsSync(cronFiles', id)
          /\ cronFiles'[id].consecutiveFailures = 0
          /\ cronFiles'[id].enabled]_cronVars

\* C13 witness: the job has just run successfully after four failed runs
C13_Witness ==
  LET execs == executions[<<"a">>]
      n     == Len(execs)
  IN  /\ fired = Launching(<<"a">>, launchParams(getJob(<<"a">>)))
      /\ n >= 5
      /\ execs[n].success
      /\ \A i \in (n - 4)..(n - 1) : ~execs[i].success
      /\ cronFiles[<<"a">>].consecutiveFailures = 0
      /\ cronFiles[<<"a">>].enabled

\* executeJob(id) would get past the lookup and the overlap check
PassesChecks(id) ==
  /\ existsSync(cronFiles, id)
  /\ cronFiles[id].enabled
  /\ ~StillAlive(lastSessionIdOf(cronFiles[id]))

C15_MissingOrDisabledNoOp ==
  [][\A id \in JobIds :
       ( /\ ExecuteJobStep(id)
         /\ ~(existsSync(cronFiles, id) /\ cronFiles[id].enabled) )
       => /\ fired'.outcome \in {"missing", "disabled"}
          /\ cronRet' = cronRet
          /\ sessions' = sessions
          /\ injected' = injected
          /\ executions' = executions
          /\ cronFiles' = cronFiles]_cronVars

\* C15 witness: executeJob was just called for a job that five failures in
\* a row have disabled
C15_Witness ==
  /\ fired = Firing(<<"a">>, "disabled")
  /\ existsSync(cronFiles, <<"a">>)
  /\ ~cronFiles[<<"a">>].enabled
  /\ cronFiles[<<"a">>].consecutiveFailures = MAX_CONSECUTIVE_FAILURES
  /\ Len(executions[<<"a">>]) >= MAX_CONSECUTIVE_FAILURES

(***************************************************************************)
(* Claims about the scheduler's timers                                     *)
(***************************************************************************)
\* the timers the runtime holds armed for job id
ArmedFor(id) == {t \in armed : t.id = id}

(* C12: After any sequence of scheduleJob and stopJob calls there is at    *)
(* most one armed timer per job id, the one the scheduler holds for the    *)
(* id; it is the timer of the latest schedule, so that getNextRunTime(id)  *)
(* is a time of the latest schedule, and a timer that fires is the timer   *)
(* of the latest schedule: a replaced schedule never fires.                *)
C12_OneTimerPerJob ==
  /\ \A id \in JobIds :
       /\ Cardinality(ArmedFor(id)) <= 1
       /\ ArmedFor(id) = IF cronTimers[id].armed THEN {cronTimers[id]} ELSE {}
       /\ cronTimers[id].armed =>
            /\ cronTimers[id].schedule = latest[id]
            /\ getNextRunTime(id) \in latest[id] \cup {Beyond}
       /\ (latest[id] # NoSchedule /\ ~cronTimers[id].armed) =>
            \A t \in latest[id] : t <= cronNow
       /\ latest[id] = NoSchedule => getNextRunTime(id) = NoNextRun
  /\ firedTimer.armed =>
       /\ firedTimer.schedule = latest[firedTimer.id]
       /\ firedTimer.at \in latest[firedTimer.id]

\* C12 witness: scheduleJob was just called for an id that had a timer with
\* another schedule, and the id has the one timer of the new schedule
C12_Witness ==
  /\ called.op = "scheduleJob"
  /\ called.replaced
  /\ cronTimers[called.id].armed
  /\ ArmedFor(called.id) = {cronTimers[called.id]}
  /\ getNextRunTime(called.id) = 2
  /\ cronNow = 1

(* C16: scheduleJob for a job with enabled = false, or for a one-shot job  *)
(* whose timestamp is in the past, installs no timer and cancels the timer *)
(* the id had: afterwards getNextRunTime(id) is null and no timer is armed *)
(* for the id, so that nothing can fire for it.                            *)
C16_DisabledOrPastNotScheduled ==
  (called.op = "scheduleJob" /\ (~called.enabled \/ called.past)) =>
    /\ getNextRunTime(called.id) = NoNextRun
    /\ ~cronTimers[called.id].armed
    /\ ArmedFor(called.id) = {}

\* C16 witness: scheduleJob was just called with an enabled one-shot job
\* whose timestamp is in the past, for an id that had a timer
C16_Witness ==
  /\ called.op = "scheduleJob"
  /\ called.enabled
  /\ called.past
  /\ called.replaced
  /\ getNextRunTime(called.id) = NoNextRun

(* C17: destroy() cancels every timer, so that afterwards getNextRunTime   *)
(* is null for every id and no timer is left armed that could fire, and    *)
(* empties the execution history, so that getExecutions is [] for every    *)
(* id; it changes no field of any stored job.                              *)
C17_DestroyClears ==
  [][called'.op = "destroy" =>
       /\ armed' = {}
       /\ \A id \in JobIds :
            /\ ~cronTimers'[id].armed
            /\ executions'[id] = <<>>
       /\ cronFiles' = cronFiles]_cronVars

\* C17 witness: destroy() was just called in a scheduler whose timer had
\* run a stored job; the job keeps its run count and no history is left
C17_Witness ==
  /\ called.op = "destroy"
  /\ existsSync(cronFiles, <<"a">>)
  /\ cronFiles[<<"a">>].totalRuns >= 1
  /\ \A id \in JobIds : getExecutions(id) = <<>> /\ getNextRunTime(id) = NoNextRun
  /\ armed = {}

(***************************************************************************)
(* Claims about the recorder's switches and about one recording file       *)
(***************************************************************************)
\* C18: whether a session is recorded is decided by the latest
\* enableForSession or disableForSession call made for that session: not
\* recorded after disableForSession, recorded after enableForSession, and as
\* the global flag says when neither was ever called for it; the calls made
\* for another session do not count.
C18_PerSessionOverride ==
  \A sid \in RecSessionIds :
    isRecording(sid) = (CASE lastOverride[sid] = "disableForSession" -> FALSE
                          [] lastOverride[sid] = "enableForSession"  -> TRUE
                          [] OTHER                                   -> globalEnabled)

\* one session forced on while the global flag is off, after another session
\* was switched off
C18_Witness ==
  /\ ~globalEnabled
  /\ lastOverride["a"] = "enableForSession" /\ isRecording("a")
  /\ lastOverride["b"] = "disableForSession" /\ ~isRecording("b")
  /\ recorders["a"].active

\* what loadRecording makes of the recorder's file
Loaded == loadRecording(srFile)

\* the arguments of a sequence of record calls
Arguments(calls) == [i \in 1..Len(calls) |->
                       [dir |-> calls[i].dir, raw |-> calls[i].raw, ch |-> calls[i].ch]]

Appended(call) == call.ok

\* s can be had from t by leaving elements out
RECURSIVE IsSubsequence(_, _)
IsSubsequence(s, t) ==
  IF s = <<>> THEN TRUE
  ELSE IF t = <<>> THEN FALSE
  ELSE IF Head(s) = Head(t) THEN IsSubsequence(Tail(s), Tail(t))
  ELSE IsSubsequence(s, Tail(t))

\* C19 as stated: loading the file of a recorder gives back its session id,
\* backend type and cwd, and one entry for each record call made on it while
\* it was open, in call order, with the call's dir, raw and ch.
C19_OneEntryPerCall ==
  srRecorder.constructed =>
    /\ Loaded.ok
    /\ Loaded.header = srRecorder.header
    /\ Loaded.entries = Arguments(srCalls)

\* C19: loading the file of a recorder gives back its session id, backend
\* type and cwd; when every append succeeded it gives one entry for each
\* record call, in call order, with the call's dir, raw and ch, raw character
\* for character; when an append failed, the entries are still entries of
\* record calls, in call order, with some of the calls left out.
C19_RoundTrip ==
  srRecorder.constructed =>
    /\ Loaded.ok
    /\ Loaded.header = srRecorder.header
    /\ IsSubsequence(Loaded.entries, Arguments(srCalls))
    /\ (\A i \in 1..Len(srCalls) : srCalls[i].ok) => Loaded.entries = Arguments(srCalls)

\* two calls, both appended, the first with a line feed in its text and the
\* second with a quote, on a recorder whose cwd has a quote and a backslash
C19_Witness ==
  /\ srRecorder.constructed
  /\ srRecorder.header.cwd = <<"x", "Q", "BS">>
  /\ Len(srCalls) = 2
  /\ srCalls[1].ok /\ srCalls[1].raw = <<"x", "LF", "x">>
  /\ srCalls[2].ok /\ srCalls[2].raw = <<"Q">>
  /\ Len(Loaded.entries) = 2

\* C20: the recorder's lineCount is the number of lines of its file, as
\* countFileLines counts them: 1 after construction, one more for each record
\* call that appended, unchanged by a call whose append failed and by close.
C20_LineCountMatchesFile ==
  srRecorder.constructed =>
    /\ srRecorder.lineCount = countNewlines(srFile)
    /\ srRecorder.lineCount = 1 + Len(SelectSeq(srCalls, Appended))

\* a closed recorder after one call that appended and one that did not
C20_Witness ==
  /\ srRecorder.constructed /\ srRecorder.closed
  /\ Len(srCalls) = 2
  /\ srCalls[1].ok /\ ~srCalls[2].ok
  /\ srRecorder.lineCount = 2

\* C21: a record call made on a closed recorder appends nothing to the file
\* and leaves lineCount, and the rest of the recorder, as they were; a close
\* call made on a closed recorder changes nothing either.
C21_ClosedIsFinal ==
  [][(srLast'.closed /\ srLast'.op \in {"record", "close"})
       => (srFile' = srFile /\ srRecorder' = srRecorder)]_srVars

\* a record call made after close, on a recorder that recorded one line
\* while it was open
C21_Witness ==
  /\ srLast = [op |-> "record", closed |-> TRUE]
  /\ srRecorder.closed
  /\ srRecorder.lineCount = 2
  /\ countNewlines(srFile) = 2

Loadable == {id \in SessionIds : Parses(files[id])}

\* C23: load(id) returns null when the file of id is missing or does not
\* parse; loadAll returns the snapshots of the files that parse, one for
\* each, and nothing for a file that does not parse or for launcher.json, so
\* that it returns the empty list when no file parses.
C23_CorruptIsAbsent ==
  /\ \A id \in SessionIds : (load(id) = Null) = (files[id].kind \in {"ENOENT", "corrupt"})
  /\ Len(loadAll) = Cardinality(Loadable)
  /\ \A id \in Loadable : \E i \in 1..Len(loadAll) : loadAll[i] = load(id)
  /\ \A i \in 1..Len(loadAll) : loadAll[i].id \in Loadable

\* a directory with a snapshot that parses, one that does not, and a
\* launcher.json that parses
C23_Witness ==
  /\ files["s1"].kind = "corrupt" /\ load("s1") = Null
  /\ Parses(files["s2"])
  /\ Parses(launcherFile)
  /\ loadAll = <<load("s2")>>

\* C24: setArchived(id, b) returns false and leaves every file as it was when
\* load(id) gives null; otherwise it returns true, and load(id) gives
\* afterwards what it gave before with archived = b, the other files as they
\* were.
C24_SetArchivedFrame ==
  [][\A id \in SessionIds, b \in {True, False} :
       setArchived(id, b) =>
         /\ \A other \in SessionIds \ {id} : files'[other] = files[other]
         /\ launcherFile' = launcherFile
         /\ IF load(id) = Null
              THEN storeRet' = False /\ files'[id] = files[id]
              ELSE storeRet' = True /\ load(id)' = [load(id) EXCEPT !.archived = b]]_storeVars

\* true returned for a snapshot with every field set whose flag went from
\* true to false
C24_Witness ==
  /\ storeRet = True
  /\ load("s1") = PersistedSession("s1", "2", False)

(***************************************************************************)
(* Claims about the cron job store                                         *)
(***************************************************************************)
\* the ids of the stored jobs, before and after a step
Stored     == {id \in JobIds : existsSync(cronFiles, id)}
StoredNext == {id \in JobIds : existsSync(cronFiles', id)}

\* a text that is empty or only whitespace
Blank(text) == \A i \in 1..Len(text) : text[i] \in Whitespace

\* a name with a letter or a digit in it
Alphanumeric == {"a", "B", "1"}
HasAlphanumeric(name) == \E i \in 1..Len(name) : name[i] \in Alphanumeric

ValidationErrors == {ErrNameRequired, ErrPromptRequired, ErrScheduleRequired,
                     ErrCwdRequired, ErrNoAlnum, ErrSimilarName}

\* C25: createJob raises a validation error and leaves the stored jobs as
\* they were when name, prompt, schedule or cwd is empty or only whitespace,
\* when the name has no letter or digit, or when the slug of the name is the
\* id of a stored job; otherwise it stores one new job under that slug, with
\* consecutiveFailures = 0 and totalRuns = 0, and leaves the others alone.
C25_CreateJobValidates ==
  [][\A data \in StoreCreateInputs :
       createJob(data) =>
         LET id == slugify(trimString(data.name)) IN
         IF \/ Blank(data.name) \/ Blank(data.prompt)
            \/ Blank(data.schedule) \/ Blank(data.cwd)
            \/ ~HasAlphanumeric(data.name)
            \/ id \in Stored
           THEN cronRet' \in ValidationErrors /\ cronFiles' = cronFiles
           ELSE /\ cronRet' = "job"
                /\ id \notin Stored
                /\ StoredNext = Stored \cup {id}
                /\ cronFiles'[id].id = id
                /\ cronFiles'[id].consecutiveFailures = 0
                /\ cronFiles'[id].totalRuns = 0
                /\ \A other \in JobIds \ {id} : cronFiles'[other] = cronFiles[other]]_cronVars

\* two jobs stored, the second by a call whose name differs from the first
\* job's only in what slugify drops, and a call rejected since
C25_Witness ==
  /\ Stored = JobIds
  /\ cronFiles[<<"b", "-", "1">>].name = <<"b", "!", "-", "1">>
  /\ storeCall = "createJob"
  /\ cronRet = ErrSimilarName

\* the id that the job `id` has after updateJob(id, updates)
RenamedTo(id, updates) ==
  IF "name" \in DOMAIN updates /\ ~Blank(updates.name)
    THEN slugify(trimString(updates.name)) ELSE id

\* C26: an updateJob call that stores a job leaves its createdAt as it was,
\* whatever id and createdAt the updates hold; the job keeps its id and its
\* key when the slug of its name does not change, and is stored under the new
\* slug, with that id and without the old key, when it does; the number of
\* stored jobs and every other job stay as they were.
C26_IdAndCreatedAtImmutable ==
  [][\A id \in Stored, updates \in UpdateInputs :
       (updateJob(id, updates) /\ cronRet' = "job") =>
         LET newId == RenamedTo(id, updates) IN
         /\ newId \in JobIds
         /\ cronFiles'[newId].id = newId
         /\ cronFiles'[newId].createdAt = cronFiles[id].createdAt
         /\ newId # id => newId \notin Stored
         /\ StoredNext = (Stored \ {id}) \cup {newId}
         /\ Cardinality(StoredNext) = Cardinality(Stored)
         /\ \A other \in JobIds \ {id, newId} : cronFiles'[other] = cronFiles[other]]_cronVars

\* a job created at time 1 and since renamed, with the createdAt it was
\* created with, after a call that passed an id and a createdAt of its own
C26_Witness ==
  /\ Stored = {<<"b", "-", "1">>}
  /\ cronFiles[<<"b", "-", "1">>].prompt = <<"y">>
  /\ cronFiles[<<"b", "-", "1">>].name = <<"B", " ", "1">>
  /\ cronFiles[<<"b", "-", "1">>].createdAt = 1
  /\ storeCall = "updateJob"
  /\ cronRet = "job"

\* C27: updateJob with a name whose slug is the id of a different stored job
\* raises an error and leaves every job and key as it was; updateJob for an
\* id that is not stored returns null and writes nothing.
C27_RenameCollision ==
  [][\A id \in JobIds, updates \in UpdateInputs :
       /\ (id \notin Stored /\ updateJob(id, updates))
            => (cronRet' = "null" /\ cronFiles' = cronFiles)
       /\ (id \in Stored /\ RenamedTo(id, updates) \in Stored \ {id}
              /\ updateJob(id, updates))
            => (cronRet' = ErrSimilarName /\ cronFiles' = cronFiles)]_cronVars

\* both jobs stored and a rename of one to the other's name just rejected
C27_Witness ==
  /\ Stored = JobIds
  /\ storeCall = "updateJob"
  /\ cronRet = ErrSimilarName
  /\ cronFiles[<<"a">>].name = <<"a">>
  /\ cronFiles[<<"a">>].prompt = <<"y">>

\* the characters slugify keeps, those it reads as a separator, and the rest
Separators == Whitespace \cup {"-"}

(* The groups of letters and digits of a lowercased name, joined by one    *)
(* hyphen wherever whitespace or hyphens stood between two of them.        *)
RECURSIVE JoinedGroups(_, _, _)
JoinedGroups(name, sofar, separated) ==
  IF name = <<>> THEN sofar
  ELSE IF Head(name) \in Separators THEN JoinedGroups(Tail(name), sofar, TRUE)
  ELSE IF toLowerCase(Head(name)) \in SlugChars
    THEN JoinedGroups(Tail(name),
                      sofar \o (IF separated /\ sofar # <<>> THEN <<"-">> ELSE <<>>)
                            \o <<toLowerCase(Head(name))>>,
                      FALSE)
  ELSE JoinedGroups(Tail(name), sofar, separated)

\* a non-empty string of groups of a-z and 0-9 joined by single hyphens
WellFormedId(id) ==
  /\ id # <<>>
  /\ \A i \in 1..Len(id) : id[i] \in SlugChars
  /\ id[1] # "-" /\ id[Len(id)] # "-"
  /\ \A i \in 1..(Len(id) - 1) : ~(id[i] = "-" /\ id[i + 1] = "-")

\* C28: the id createJob derives from a name is the name lowercased, each
\* run of whitespace turned into a hyphen, the characters other than a-z, 0-9
\* and hyphen removed, runs of hyphens collapsed and a leading and a trailing
\* hyphen removed, that is the name's groups of letters and digits joined by
\* single hyphens; the name is accepted exactly when that id is not empty, and
\* every stored id is such a string.
C28_SlugDerivation ==
  /\ derived.outcome # "none" =>
       /\ derived.id = JoinedGroups(derived.name, <<>>, FALSE)
       /\ (derived.outcome = "job") = (derived.id # <<>>)
       /\ derived.outcome = "job" => WellFormedId(derived.id)
  /\ \A id \in JobIds : existsSync(cronFiles, id) => WellFormedId(cronFiles[id].id)

\* a name whose whitespace, hyphen and other characters all stand between
\* two letters
C28_Witness ==
  /\ derived.name = <<"B", " ", "-", "1">>
  /\ derived.id = <<"b", "-", "1">>
  /\ derived.outcome = "job"

\* the lines of the recording file that are not blank
ReplayNonBlank == SelectSeq(recording.written, LAMBDA l : l.kind # "blank")

\* the objects a sequence of lines stands for, in the order of the lines
RECURSIVE ObjectsOf(_)
ObjectsOf(lines) ==
  IF lines = <<>> THEN <<>> ELSE Head(lines).parsed \o ObjectsOf(Tail(lines))

\* C29: loadRecording raises an error when the file has no non-blank line
\* or when its first non-blank line is not a header with _header true and
\* version 1; otherwise it returns that header and, in file order, the
\* entries of the lines after it that parse, skipping every line that does
\* not parse.
C29_LoadRecordingSkipsMalformed ==
  LET r == loadRecording(recording.content) IN
  /\ r.ok = (ReplayNonBlank # <<>> /\ Head(ReplayNonBlank).kind = "header")
  /\ r.ok => /\ r.header = Head(ReplayNonBlank).parsed[1].header
             /\ r.entries = ObjectsOf(Tail(ReplayNonBlank))

\* a header, an entry, a line that is no JSON, and another entry
C29_Witness ==
  /\ Len(recording.written) = 4
  /\ [i \in 1..4 |-> recording.written[i].kind] = <<"header", "entry", "corrupt", "entry">>
  /\ recording.written[2] # recording.written[4]
  /\ Len(loadRecording(recording.content).entries) = 2

\* C30: the launch parameters executeJob chooses: for a codex job the
\* sandbox is danger-full-access exactly when permissionMode is
\* bypassPermissions and workspace-write for every other permissionMode, and
\* internet access is true unless the job sets codexInternetAccess to false;
\* for a claude job neither a sandbox nor an internet access is passed.
C30_LaunchParameters ==
  [][\A id \in FiredJobIds :
       LaunchStep(id) =>
         LET job == getJob(id)
             p   == fired'.launch
         IN  /\ p.backendType = job.backendType
             /\ p.permissionMode = job.permissionMode
             /\ job.backendType = "codex" =>
                  /\ (p.codexSandbox = "danger-full-access")
                       = (job.permissionMode = "bypassPermissions")
                  /\ (p.codexSandbox = "workspace-write")
                       = (job.permissionMode # "bypassPermissions")
                  /\ p.codexInternetAccess
                       = ~("codexInternetAccess" \in DOMAIN job /\ ~job.codexInternetAccess)
             /\ job.backendType = "claude" =>
                  /\ "codexSandbox" \notin DOMAIN p
                  /\ "codexInternetAccess" \notin DOMAIN p]_cronVars

\* a codex job in plan mode that sets codexInternetAccess to false was launched
C30_Witness ==
  /\ fired.called /\ fired.outcome = "launched"
  /\ fired.launch = [backendType |-> "codex", permissionMode |-> "plan",
                     codexSandbox |-> "workspace-write", codexInternetAccess |-> FALSE]
  /\ ~getJob(fired.id).codexInternetAccess

\* C31: listRecordings reports, for every file a SessionRecorder created
\* for session id s and backend type b, sessionId = s, backendType = b and a
\* line count equal to that recorder's lineCount, and it returns the empty
\* list when the recordings directory does not exist.
C31_ListRecordingsRecovers ==
  /\ ~recordingsDirExists => listRecordings = {}
  /\ \A f \in FileNames :
       (recordings[f].exists /\ fileInfo[f].recorder # NoRecorder) =>
         \E m \in listRecordings :
           /\ m.filename = fileInfo[f].filename
           /\ m.sessionId = SessionIdText(fileInfo[f].recorder.sessionId)
           /\ m.backendType = <<fileInfo[f].recorder.backendType>>
           /\ m.lines = fileInfo[f].recorder.lineCount

\* the path the Codex home is taken from
CodexBase(explicit) ==
  IF explicit.given /\ explicit.path # <<>> THEN explicit.path
  ELSE DEFAULT_COMPANION_CODEX_HOME

\* an absolute path of names other than "." and "..", one separator before each
Canonical(path) ==
  /\ Len(path) >= 2 /\ Len(path) % 2 = 0
  /\ \A i \in 1..Len(path) :
       IF i % 2 = 1 THEN path[i] = "/" ELSE path[i] \notin {"/", ".", ".."}

\* the latest call gives the same result under every value of CODEX_HOME
SameUnderEveryEnv ==
  \A env \in CodexHomeEnvs :
    IF codexCall.op = "resolveCompanionCodexHome"
      THEN resolveCompanionCodexHome(env, codexCall.explicit) = codexCall.result
      ELSE resolveCompanionCodexSessionHome(env, codexCall.sessionId, codexCall.explicit)
             = codexCall.result

\* C32: the results of resolveCompanionCodexHome and of
\* resolveCompanionCodexSessionHome are the same under every value of
\* CODEX_HOME, namely the explicit path if one is given and the companion
\* default otherwise, with the session id appended for the session home.
C32_ExplicitPathOrDefault ==
  codexCall.op # "none" =>
    LET base == IF codexCall.explicit.given THEN codexCall.explicit.path
                ELSE DEFAULT_COMPANION_CODEX_HOME
    IN  /\ SameUnderEveryEnv
        /\ codexCall.op = "resolveCompanionCodexHome" => codexCall.result = base
        /\ codexCall.op = "resolveCompanionCodexSessionHome" =>
             codexCall.result = base \o <<"/">> \o codexCall.sessionId

\* C32, amended: the results are the same under every value of CODEX_HOME,
\* namely the absolute, normalised form of the explicit path (the explicit
\* path itself when it already is absolute and normalised) if a non-empty one
\* is given and the companion default otherwise, with the session id appended
\* for the session home.
C32_CodexHomeIgnoresEnv ==
  codexCall.op # "none" =>
    LET base == CodexBase(codexCall.explicit)
        home == IF Canonical(base) THEN base ELSE resolve(base)
    IN  /\ SameUnderEveryEnv
        /\ Canonical(home)
        /\ codexCall.op = "resolveCompanionCodexHome" => codexCall.result = home
        /\ codexCall.op = "resolveCompanionCodexSessionHome" =>
             codexCall.result = home \o <<"/">> \o codexCall.sessionId

\* the session home asked for without an explicit path while CODEX_HOME
\* names the global Codex home
C32_Witness ==
  /\ codexEnv = Given(getLegacyCodexHome)
  /\ codexCall.op = "resolveCompanionCodexSessionHome"
  /\ ~codexCall.explicit.given
  /\ codexCall.result = <<"/", "home", "/", ".companion", "/", "codex-home", "/", "abc-123">>

(***************************************************************************)
(* C33.  An immediate write is never overwritten by an older snapshot.     *)
(* A pending timeout of an id whose run of saves has been ended holds a    *)
(* snapshot given to save() before a later saveSync() or setArchived()     *)
(* wrote the file of that id (remove() clears the timeout, and a           *)
(* setArchived() that finds no session leaves the run open).  With no      *)
(* further call for the id, the only step that can touch the file is that  *)
(* timeout running: it must leave the file as the immediate write made it. *)
(***************************************************************************)
ImmediateWriteThenPending(h) ==
  /\ timers[h].active
  /\ debounceTimers[timers[h].session.id] = h
  /\ ~burst[timers[h].session.id].open

C33_ImmediateWriteNotOverwritten ==
  [][\A h \in Handles :
       (ImmediateWriteThenPending(h) /\ TimerFires(h)) =>
          files'[timers[h].session.id] = files[timers[h].session.id]]_storeVars

(***************************************************************************)
(* C34.  At most one debounced write is pending per session id, and        *)
(* debounceTimers holds an entry for an id exactly while a write for it is *)
(* pending, the entry being the handle of that write; a save, saveSync or  *)
(* remove for one id leaves the entry and the pending timeout (snapshot    *)
(* and remaining delay) of every other id as they were.                    *)
(***************************************************************************)
OnePendingWritePerId ==
  \A id \in SessionIds :
    /\ Cardinality(PendingFor(id)) <= 1
    /\ debounceTimers[id] # NoHandle <=> PendingFor(id) # {}
    /\ debounceTimers[id] # NoHandle => debounceTimers[id] \in PendingFor(id)

CallFor(a) ==
  \/ \E session \in SaveInputs : session.id = a /\ (save(session) \/ saveSync(session))
  \/ remove(a)

\* a step that changes the entry or the pending timeout of b is no call for
\* another id
OtherIdsUntouched ==
  \A b \in SessionIds :
    (\/ debounceTimers'[b] # debounceTimers[b]
     \/ \E h \in PendingFor(b) : timers'[h] # timers[h])
      => \A a \in SessionIds \ {b} : ~CallFor(a)

C34_OnePendingWritePerId ==
  [](OnePendingWritePerId) /\ [][OtherIdsUntouched]_storeVars

\* C34 witness: writes are pending for both ids at once, with different
\* remaining delays, after one of the ids was saved twice
C34_Witness ==
  /\ \A id \in SessionIds : PendingFor(id) # {}
  /\ \E h1 \in Handles, h2 \in Handles :
       /\ timers[h1].active /\ timers[h2].active
       /\ timers[h1].rem < timers[h2].rem
       /\ burst[timers[h2].session.id].calls >= 2

(***************************************************************************)
(* C35.  Recorders are created lazily.  A recorder and its file come into  *)
(* being only in a record() call made while isRecording(session) is true,  *)
(* the file being a new one that starts with its own header line; a        *)
(* record() call made while it is false changes no file and no recorder.   *)
(* A session has at most one active recorder, which writes to a file no    *)
(* other recorder writes to.  stopRecording and disableForSession leave    *)
(* the session without recorder, and a file gets a line only from the      *)
(* active recorder that created it: the file of a stopped recorder gets no *)
(* further line, and the next accepted record() starts a new file.         *)
(***************************************************************************)
\* the recorder that writes to file f
WritersOf(f) == {sid \in RecSessionIds : recorders[sid].active /\ recorders[sid].filePath = f}

RecorderHasItsFile ==
  /\ \A sid \in RecSessionIds :
       recorders[sid].active =>
         /\ recordings[recorders[sid].filePath].exists
         /\ fileInfo[recorders[sid].filePath].recorder # NoRecorder
         /\ fileInfo[recorders[sid].filePath].recorder.sessionId = sid
  /\ \A f \in FileNames :
       /\ Cardinality(WritersOf(f)) <= 1
       /\ recordings[f].exists =>
            /\ fileInfo[f].recorder # NoRecorder
            /\ recordings[f].lines >= 1

RecorderLifecycle ==
  /\ \A sid \in RecSessionIds :
       /\ (~recorders[sid].active /\ recorders'[sid].active) =>
            /\ isRecording(sid)
            /\ recordCall' = RecordCall(sid, TRUE)
            /\ ~recordings[recorders'[sid].filePath].exists
            /\ recorders'[sid].lineCount \in {1, 2}
            /\ recordings'[recorders'[sid].filePath].lines = recorders'[sid].lineCount
       /\ recordCall' = RecordCall(sid, FALSE) =>
            /\ ~isRecording(sid)
            /\ recordings' = recordings
            /\ recorders' = recorders
       /\ (stopRecording(sid) \/ disableForSession(sid)) => ~recorders'[sid].active
  /\ \A f \in FileNames :
       recordings'[f] # recordings[f] =>
         \E sid \in RecSessionIds :
           /\ isRecording(sid)
           /\ recordCall' = RecordCall(sid, TRUE)
           /\ recorders'[sid].active /\ recorders'[sid].filePath = f
           /\ recordings[f].exists => WritersOf(f) = {sid}

C35_LazyRecorder ==
  [](RecorderHasItsFile) /\ [][RecorderLifecycle]_recorderVars

\* C35 witness: session a was recorded, stopped and recorded again: its first
\* file is left with its two lines and no recorder, its second file has just
\* been started by an accepted record() call
C35_Witness ==
  \E f1 \in FileNames : \E f2 \in FileNames \ {f1} :
    /\ recordCall = RecordCall("a", TRUE)
    /\ recorders["a"].active /\ recorders["a"].filePath = f2
    /\ recordings[f1].exists /\ recordings[f1].lines = 2
    /\ fileInfo[f1].recorder # NoRecorder /\ fileInfo[f1].recorder.sessionId = "a"
    /\ recordings[f2].lines = 1
    /\ ~recorders["b"].active

(***************************************************************************)
(* C36.  After any sequence of createJob, updateJob and deleteJob calls,   *)
(* whether they succeed or fail, every stored job has an id equal to the   *)
(* key it is stored under and to the slug of its name, and no two stored   *)
(* jobs have the same id.                                                  *)
(***************************************************************************)
C36_IdIsKeyIsSlug ==
  /\ \A k \in Stored :
       /\ cronFiles[k].id = k
       /\ slugify(cronFiles[k].name) = k
  /\ \A k1 \in Stored : \A k2 \in Stored \ {k1} :
       cronFiles[k1].id # cronFiles[k2].id

\* C36 witness: two jobs are stored, one of them under the id of the name it
\* was renamed to, and the call just made was refused for a name whose slug
\* is taken
C36_Witness ==
  /\ Stored = {<<"a">>, <<"b", "-", "1">>}
  /\ cronFiles[<<"b", "-", "1">>].name = <<"B", " ", "1">>
  /\ cronFiles[<<"a">>].name # <<"a">>
  /\ storeCall = "updateJob"
  /\ cronRet = ErrSimilarName

(***************************************************************************)
(* C37.  loadAll() is complete.  For every session id, the snapshot that   *)
(* saveSync, or the timeout of a save, has just written is returned by     *)
(* loadAll() exactly once, and a snapshot loadAll() returns stays returned *)
(* until the id is removed or written again.                               *)
(***************************************************************************)
ReturnedFor(id) == {i \in 1..Len(loadAll) : loadAll[i].id = id}

Returned(s) ==
  /\ Cardinality(ReturnedFor(s.id)) = 1
  /\ \A i \in ReturnedFor(s.id) : loadAll[i] = s

WriteOrRemove(id) ==
  \/ remove(id)
  \/ \E t \in AnyIdInputs : t.id = id /\ SessionStore_saveSync(t)
  \/ \E h \in Pending(timers) : timers[h].session.id = id /\ TimerFires(h)

C37_LoadAllComplete ==
  [][\A s \in AnyIdInputs :
       /\ SessionStore_saveSync(s) => Returned(s)'
       /\ \A h \in Pending(timers) :
            (timers[h].session = s /\ TimerFires(h)) => Returned(s)'
       /\ (Returned(s) /\ ~Returned(s)') => WriteOrRemove(s.id)]_storeVars

(***************************************************************************)
(* C38.  The overlap guard is a liveness check, not a lock.  Whether an    *)
(* executeJob call goes on to launch is decided by the stored job alone:   *)
(* it goes on exactly when the job is stored and enabled and its           *)
(* lastSessionId names no session the launcher reports as alive, whatever  *)
(* other calls for the job are in progress.  So two calls that overlap can *)
(* both pass the guard before either has recorded the session it launched, *)
(* and two sessions of one job are then alive at the same time.            *)
(***************************************************************************)
C38_OverlapGuardIsNoLock ==
  [][\A f \in Firings, id \in FiredJobIds :
       executeJob_check(f, id) =>
         ((firings'[f] # Idle) <=>
            /\ getJob(id) # NoJob
            /\ getJob(id).enabled
            /\ ~isAlive(lastSessionIdOf(getJob(id))))]_cronVars

\* C38 witness: two calls for job a have both launched a session and neither
\* has recorded it; both sessions are alive
C38_Witness ==
  /\ \A f \in {1, 2} :
       /\ firings[f].pc = "launched"
       /\ firings[f].id = <<"a">>
       /\ isAlive(firings[f].sessionId)
       /\ sessions[firings[f].sessionId].cronJobId = <<"a">>
  /\ firings[1].sessionId # firings[2].sessionId
  /\ lastSessionIdOf(getJob(<<"a">>)) = NoSession

(***************************************************************************)
(* C39.  The enriched PATH is computed once.  A getEnrichedPath() call     *)
(* made when the value has been computed since the last _resetPathCache()  *)
(* (the cache is not null) returns the value computed then, without        *)
(* capturing the shell PATH again; a call made when it has not computes    *)
(* the value from the environment of that moment.                          *)
(***************************************************************************)
C39_ComputedOnce ==
  [][getEnrichedPath =>
       IF cachedPath # NoPath
         THEN /\ ~pathCall'.captured
              /\ pathCall'.result = cachedPath.value
              /\ cachedPath' = cachedPath
         ELSE /\ pathCall'.captured
              /\ pathCall'.result = enrichedPath(pathEnv.shell, pathEnv.PATH)
              /\ cachedPath' = Cached(pathCall'.result)]_pathVars

(***************************************************************************)
(* Specifications                                                          *)
(***************************************************************************)
vars == <<storeVars, bridgeVars, recorderVars, srVars, cronVars>>

Init == StoreInit /\ BridgeInit /\ RecorderInit /\ SessionRecorderInit /\ CronInit
          /\ ProcInit

\* the session store alone
StoreNext ==
  \/ \E session \in SaveInputs : save(session) /\ UNCHANGED <<bridgeVars, recorderVars, srVars, cronVars>>
  \/ \E session \in SaveInputs : saveSync(session) /\ UNCHANGED <<bridgeVars, recorderVars, srVars, cronVars>>
  \/ \E h \in Handles : TimerFires(h) /\ UNCHANGED <<bridgeVars, recorderVars, srVars, cronVars>>
  \/ \E id \in SessionIds, archived \in {True, False} :
       setArchived(id, archived) /\ UNCHANGED <<bridgeVars, recorderVars, srVars, cronVars>>
  \/ \E id \in SessionIds : remove(id) /\ UNCHANGED <<bridgeVars, recorderVars, srVars, cronVars>>
  \/ Advance /\ UNCHANGED <<bridgeVars, recorderVars, srVars, cronVars>>

SpecStore == Init /\ [][StoreNext]_vars

\* the store and its directory, with files that get damaged
StoreFilesNext ==
  \/ \E session \in FirstSessionInputs :
       save(session) /\ UNCHANGED <<bridgeVars, recorderVars, srVars, cronVars>>
  \/ \E session \in FileInputs :
       saveSync(session) /\ UNCHANGED <<bridgeVars, recorderVars, srVars, cronVars>>
  \/ \E h \in Handles : TimerFires(h) /\ UNCHANGED <<bridgeVars, recorderVars, srVars, cronVars>>
  \/ \E id \in SessionIds, archived \in {True, False} :
       setArchived(id, archived) /\ UNCHANGED <<bridgeVars, recorderVars, srVars, cronVars>>
  \/ \E id \in SessionIds : remove(id) /\ UNCHANGED <<bridgeVars, recorderVars, srVars, cronVars>>
  \/ \E data \in LauncherData :
       saveLauncher(data) /\ UNCHANGED <<bridgeVars, recorderVars, srVars, cronVars>>
  \/ \E i \in 1..Len(DirectoryNames) :
       FileDamaged(DirectoryNames[i]) /\ UNCHANGED <<bridgeVars, recorderVars, srVars, cronVars>>
  \/ Advance /\ UNCHANGED <<bridgeVars, recorderVars, srVars, cronVars>>

SpecStoreFiles == Init /\ [][StoreFilesNext]_vars

\* the store and loadAll, with sessions of any id and the launcher's file
LoadAllNext ==
  \/ \E session \in AnyIdInputs :
       SessionStore_saveSync(session) /\ UNCHANGED <<bridgeVars, recorderVars, srVars, cronVars>>
  \/ \E session \in FirstSessionInputs :
       save(session) /\ UNCHANGED <<bridgeVars, recorderVars, srVars, cronVars>>
  \/ \E h \in Handles : TimerFires(h) /\ UNCHANGED <<bridgeVars, recorderVars, srVars, cronVars>>
  \/ \E id \in SessionIds : remove(id) /\ UNCHANGED <<bridgeVars, recorderVars, srVars, cronVars>>
  \/ \E data \in LauncherData :
       saveLauncher(data) /\ UNCHANGED <<bridgeVars, recorderVars, srVars, cronVars>>
  \/ Advance /\ UNCHANGED <<bridgeVars, recorderVars, srVars, cronVars>>

SpecLoadAll == Init /\ [][LoadAllNext]_vars

\* the session bridge with a client that acknowledges what it has received
BridgeNext ==
  \/ sequenceEvent /\ UNCHANGED <<storeVars, recorderVars, srVars, cronVars>>
  \/ BrowserAttaches /\ UNCHANGED <<storeVars, recorderVars, srVars, cronVars>>
  \/ BrowserReceives /\ UNCHANGED <<storeVars, recorderVars, srVars, cronVars>>
  \/ detach /\ UNCHANGED <<storeVars, recorderVars, srVars, cronVars>>
  \/ BrowserAcks /\ UNCHANGED <<storeVars, recorderVars, srVars, cronVars>>
  \/ reload /\ UNCHANGED <<storeVars, recorderVars, srVars, cronVars>>

SpecBridge == Init /\ [][BridgeNext]_vars

\* the session bridge with a client that may acknowledge any number
BridgeAnyAckNext ==
  \/ sequenceEvent /\ UNCHANGED <<storeVars, recorderVars, srVars, cronVars>>
  \/ BrowserAttaches /\ UNCHANGED <<storeVars, recorderVars, srVars, cronVars>>
  \/ BrowserReceives /\ UNCHANGED <<storeVars, recorderVars, srVars, cronVars>>
  \/ detach /\ UNCHANGED <<storeVars, recorderVars, srVars, cronVars>>
  \/ ClientAcksAny /\ UNCHANGED <<storeVars, recorderVars, srVars, cronVars>>
  \/ reload /\ UNCHANGED <<storeVars, recorderVars, srVars, cronVars>>

SpecBridgeAnyAck == Init /\ [][BridgeAnyAckNext]_vars

\* the recorder manager and its directory alone
RecorderNext ==
  \/ \E sid \in RecSessionIds, appendOk \in BOOLEAN :
       record(sid, appendOk) /\ UNCHANGED <<recordingsDirExists, fileInfo, recordCall, storeVars, bridgeVars, srVars, cronVars>>
  \/ \E sid \in RecSessionIds : stopRecording(sid) /\ UNCHANGED <<recordingsDirExists, fileInfo, recordCall, storeVars, bridgeVars, srVars, cronVars>>
  \/ \E sid \in RecSessionIds : enableForSession(sid) /\ UNCHANGED <<recordingsDirExists, fileInfo, recordCall, storeVars, bridgeVars, srVars, cronVars>>
  \/ \E sid \in RecSessionIds : disableForSession(sid) /\ UNCHANGED <<recordingsDirExists, fileInfo, recordCall, storeVars, bridgeVars, srVars, cronVars>>
  \/ closeAll /\ UNCHANGED <<recordingsDirExists, fileInfo, recordCall, storeVars, bridgeVars, srVars, cronVars>>
  \/ \E f \in FileNames, n \in FileLines, t \in Times :
       createFakeRecording(f, n, t) /\ UNCHANGED <<recordingsDirExists, fileInfo, recordCall, storeVars, bridgeVars, srVars, cronVars>>
  \/ ClockTicks /\ UNCHANGED <<recordingsDirExists, fileInfo, recordCall, storeVars, bridgeVars, srVars, cronVars>>
  \/ cleanup /\ UNCHANGED <<recordingsDirExists, fileInfo, recordCall, storeVars, bridgeVars, srVars, cronVars>>

SpecRecorder == Init /\ [][RecorderNext]_vars

\* the recorder manager, the names of its files and what else is in the directory
ListRecordingsNext ==
  \/ \E sid \in RecSessionIds, backendType \in BackendTypes, appendOk \in BOOLEAN :
       RecorderManager_record(sid, backendType, appendOk)
         /\ UNCHANGED <<recordCall, storeVars, bridgeVars, srVars, cronVars>>
  \/ \E sid \in RecSessionIds :
       stopRecording(sid)
         /\ UNCHANGED <<recordingsDirExists, fileInfo, recordCall, storeVars, bridgeVars, srVars, cronVars>>
  \/ \E sid \in RecSessionIds :
       enableForSession(sid)
         /\ UNCHANGED <<recordingsDirExists, fileInfo, recordCall, storeVars, bridgeVars, srVars, cronVars>>
  \/ \E f \in FileNames, filename \in OtherFilenames, n \in FileLines :
       OtherFileWritten(f, filename, n)
         /\ UNCHANGED <<recordCall, storeVars, bridgeVars, srVars, cronVars>>
  \/ RecorderManager_cleanup /\ UNCHANGED <<recordCall, storeVars, bridgeVars, srVars, cronVars>>

SpecListRecordings == Init /\ [][ListRecordingsNext]_vars

\* the recorder manager and the callers of record(), recording enabled or not
LazyRecorderNext ==
  \/ \E sid \in RecSessionIds, appendOk \in BOOLEAN :
       recordCalled(sid, "claude", appendOk)
         /\ UNCHANGED <<storeVars, bridgeVars, srVars, cronVars>>
  \/ \E sid \in RecSessionIds :
       stopRecording(sid) /\ otherCall /\ UNCHANGED <<storeVars, bridgeVars, srVars, cronVars>>
  \/ \E sid \in RecSessionIds :
       enableForSession(sid) /\ otherCall /\ UNCHANGED <<storeVars, bridgeVars, srVars, cronVars>>
  \/ \E sid \in RecSessionIds :
       disableForSession(sid) /\ otherCall /\ UNCHANGED <<storeVars, bridgeVars, srVars, cronVars>>

SpecLazyRecorder == Init /\ [][LazyRecorderNext]_vars

\* one SessionRecorder and its file
SessionRecorderNext ==
  \/ \E h \in RecorderInputs :
       SessionRecorder(h) /\ UNCHANGED <<storeVars, bridgeVars, recorderVars, recording, cronVars>>
  \/ \E e \in RecordInputs : \E written \in AppendWrites(stringifyEntry(e) \o <<"LF">>) :
       SessionRecorder_record(e, written)
         /\ UNCHANGED <<storeVars, bridgeVars, recorderVars, recording, cronVars>>
  \/ SessionRecorder_close /\ UNCHANGED <<storeVars, bridgeVars, recorderVars, recording, cronVars>>

SpecSessionRecorder == Init /\ [][SessionRecorderNext]_vars

\* recording files given to loadRecording
ReplayNext ==
  \E l \in ReplayLines :
    LineWritten(l)
      /\ UNCHANGED <<storeVars, bridgeVars, recorderVars, srFile, srRecorder, srCalls,
                     srLast, cronVars>>

SpecReplay == Init /\ [][ReplayNext]_vars

\* the cron store and the scheduler's executeJob
CronNext ==
  \/ \E data \in FiredCreateInputs :
       createJob(data) /\ UNCHANGED <<storeVars, bridgeVars, recorderVars, srVars, timerVars, storeClock, storeCall, derived, procVars>>
  \/ \E id \in FiredJobIds : deleteJob(id) /\ UNCHANGED <<storeVars, bridgeVars, recorderVars, srVars, timerVars, storeClock, storeCall, derived, procVars>>
  \/ \E id \in FiredJobIds, connects \in BOOLEAN :
       executeJob(id, connects) /\ UNCHANGED <<storeVars, bridgeVars, recorderVars, srVars, timerVars, storeClock, storeCall, derived, procVars>>
  \/ \E n \in SessionNumbers :
       SessionExits(n) /\ UNCHANGED <<storeVars, bridgeVars, recorderVars, srVars, timerVars, storeClock, storeCall, derived, procVars>>
  \/ CronClockTicks /\ UNCHANGED <<storeVars, bridgeVars, recorderVars, srVars, timerVars, storeClock, storeCall, derived, procVars>>

SpecCron == Init /\ [][CronNext]_vars

\* the cron job store and its callers
CronStoreNext ==
  \/ \E data \in StoreCreateInputs :
       createJob(data) /\ storeCall' = "createJob"
         /\ UNCHANGED <<storeVars, bridgeVars, recorderVars, srVars, timerVars, storeClock, derived, procVars>>
  \/ \E id \in JobIds, updates \in UpdateInputs :
       UpdateJobCall(id, updates) /\ storeCall' = "updateJob"
         /\ UNCHANGED <<storeVars, bridgeVars, recorderVars, srVars, timerVars, storeClock, derived, procVars>>
  \/ \E id \in JobIds : deleteJob(id) /\ storeCall' = "deleteJob"
         /\ UNCHANGED <<storeVars, bridgeVars, recorderVars, srVars, timerVars, storeClock, derived, procVars>>
  \/ StoreClockTicks /\ UNCHANGED <<storeVars, bridgeVars, recorderVars, srVars, cronFiles, cronRet, sessions, injected, executions, fired, cronNow, failRun, launched, timerVars, derived, procVars>>

SpecCronStore == Init /\ [][CronStoreNext]_vars

(* The ids createJob derives from names, and the ids the store holds.  The  *)
(* name a caller composes and the stored jobs share no variable, so the    *)
(* caller is followed composing names before the store's first call, and   *)
(* the store is followed while no name is being composed.                  *)
SlugNext ==
  \/ \E c \in Chars :
       storeCall = "none" /\ NameTyped(c)
         /\ UNCHANGED <<storeVars, bridgeVars, recorderVars, srVars, cronFiles, cronRet,
                        sessions, injected, executions, fired, cronNow, failRun, launched,
                        timerVars, storeClock, storeCall, procVars>>
  \/ deriveId(derived.name)
       /\ UNCHANGED <<storeVars, bridgeVars, recorderVars, srVars, cronFiles, cronRet,
                      sessions, injected, executions, fired, cronNow, failRun, launched,
                      timerVars, storeClock, storeCall, procVars>>
  \/ \E data \in StoreCreateInputs :
       derived = NoName /\ createJob(data) /\ storeCall' = "createJob"
         /\ UNCHANGED <<storeVars, bridgeVars, recorderVars, srVars, timerVars, storeClock, derived, procVars>>
  \/ \E id \in JobIds, name \in UpdateNames :
       derived = NoName /\ UpdateJobCall(id, [name |-> name]) /\ storeCall' = "updateJob"
         /\ UNCHANGED <<storeVars, bridgeVars, recorderVars, srVars, timerVars, storeClock, derived, procVars>>

SpecSlug == Init /\ [][SlugNext]_vars

\* jobs of either backend and the sessions executeJob launches for them,
\* every one of which connects
LaunchNext ==
  \/ \E data \in LaunchCreateInputs :
       createJob(data) /\ UNCHANGED <<storeVars, bridgeVars, recorderVars, srVars, timerVars, storeClock, storeCall, derived, procVars>>
  \/ \E id \in FiredJobIds : deleteJob(id) /\ UNCHANGED <<storeVars, bridgeVars, recorderVars, srVars, timerVars, storeClock, storeCall, derived, procVars>>
  \/ \E id \in FiredJobIds, connects \in {TRUE} :
       executeJob(id, connects) /\ UNCHANGED <<storeVars, bridgeVars, recorderVars, srVars, timerVars, storeClock, storeCall, derived, procVars>>
  \/ \E n \in SessionNumbers :
       SessionExits(n) /\ UNCHANGED <<storeVars, bridgeVars, recorderVars, srVars, timerVars, storeClock, storeCall, derived, procVars>>

SpecLaunch == Init /\ [][LaunchNext]_vars

\* executeJob calls whose steps interleave, for one job that is created once,
\* until one session more than there are calls has been launched
OverlapCreateInputs ==
  {data \in LaunchCreateInputs :
     /\ data.backendType = "claude"
     /\ data.permissionMode = "plan"
     /\ "codexInternetAccess" \notin DOMAIN data}

OverlapNext ==
  \/ \E data \in OverlapCreateInputs :
       Stored = {} /\ createJob(data)
         /\ UNCHANGED <<storeVars, bridgeVars, recorderVars, srVars, timerVars, storeClock,
                        storeCall, derived, procVars>>
  \/ \E f \in Firings, id \in FiredJobIds :
       executeJob_check(f, id)
         /\ UNCHANGED <<storeVars, bridgeVars, recorderVars, srVars, timerVars, storeClock,
                        storeCall, derived, codexEnv, codexCall, pathVars>>
  \/ \E f \in Firings :
       Len(sessions) <= MaxFirings /\ executeJob_launch(f, TRUE)
         /\ UNCHANGED <<storeVars, bridgeVars, recorderVars, srVars, timerVars, storeClock,
                        storeCall, derived, codexEnv, codexCall, pathVars>>
  \/ \E f \in Firings :
       executeJob_record(f)
         /\ UNCHANGED <<storeVars, bridgeVars, recorderVars, srVars, timerVars, storeClock,
                        storeCall, derived, codexEnv, codexCall, pathVars>>
  \/ \E n \in SessionNumbers :
       SessionExits(n)
         /\ UNCHANGED <<storeVars, bridgeVars, recorderVars, srVars, timerVars, storeClock,
                        storeCall, derived, procVars>>

SpecOverlap == Init /\ [][OverlapNext]_vars

\* the Codex home functions under every value of CODEX_HOME
CodexHomeNext ==
  \/ \E env \in CodexHomeEnvs :
       CodexEnvSet(env)
         /\ UNCHANGED <<storeVars, bridgeVars, recorderVars, srVars, cronFiles, cronRet,
                        sessions, injected, executions, fired, cronNow, failRun, launched,
                        timerVars, storeClock, storeCall, derived>>
  \/ \E explicit \in ExplicitCodexHomes :
       CodexHomeResolved(explicit)
         /\ UNCHANGED <<storeVars, bridgeVars, recorderVars, srVars, cronFiles, cronRet,
                        sessions, injected, executions, fired, cronNow, failRun, launched,
                        timerVars, storeClock, storeCall, derived>>
  \/ \E sessionId \in CodexSessionIds, explicit \in ExplicitCodexHomes :
       CodexSessionHomeResolved(sessionId, explicit)
         /\ UNCHANGED <<storeVars, bridgeVars, recorderVars, srVars, cronFiles, cronRet,
                        sessions, injected, executions, fired, cronNow, failRun, launched,
                        timerVars, storeClock, storeCall, derived>>

SpecCodexHome == Init /\ [][CodexHomeNext]_vars

\* the PATH cache and an environment that changes between the calls
PathCacheNext ==
  \/ getEnrichedPath
       /\ UNCHANGED <<storeVars, bridgeVars, recorderVars, srVars, cronFiles, cronRet,
                      sessions, injected, executions, fired, cronNow, failRun, launched,
                      timerVars, storeClock, storeCall, derived, codexEnv, codexCall,
                      firings>>
  \/ resetPathCache
       /\ UNCHANGED <<storeVars, bridgeVars, recorderVars, srVars, cronFiles, cronRet,
                      sessions, injected, executions, fired, cronNow, failRun, launched,
                      timerVars, storeClock, storeCall, derived, codexEnv, codexCall,
                      firings>>
  \/ \E currentPath \in ProcessPaths, userPath \in ShellPaths :
       PathEnvChanged(currentPath, userPath)
       /\ UNCHANGED <<storeVars, bridgeVars, recorderVars, srVars, cronFiles, cronRet,
                      sessions, injected, executions, fired, cronNow, failRun, launched,
                      timerVars, storeClock, storeCall, derived, codexEnv, codexCall,
                      firings>>

SpecPathCache == Init /\ [][PathCacheNext]_vars

\* the scheduler's timers, with the job store and the launcher
SchedulerNext ==
  \/ \E data \in FiredCreateInputs :
       /\ createJob(data)
       /\ called' = NoCall
       /\ firedTimer' = NoCronTimer
       /\ UNCHANGED <<storeVars, bridgeVars, recorderVars, srVars, cronTimers, armed, latest, storeClock, storeCall, derived, procVars>>
  \/ \E job \in ScheduleInputs :
       scheduleJob(job) /\ UNCHANGED <<storeVars, bridgeVars, recorderVars, srVars, storeClock, storeCall, derived, procVars>>
  \/ \E id \in JobIds : stopJob(id) /\ UNCHANGED <<storeVars, bridgeVars, recorderVars, srVars, storeClock, storeCall, derived, procVars>>
  \/ \E t \in armed, connects \in BOOLEAN :
       CronTimerFires(t, connects) /\ UNCHANGED <<storeVars, bridgeVars, recorderVars, srVars, storeClock, storeCall, derived, procVars>>
  \/ SchedulerAdvance /\ UNCHANGED <<storeVars, bridgeVars, recorderVars, srVars, storeClock, storeCall, derived, procVars>>
  \/ destroy /\ UNCHANGED <<storeVars, bridgeVars, recorderVars, srVars, storeClock, storeCall, derived, procVars>>

SpecScheduler == Init /\ [][SchedulerNext]_vars

====
